---- MODULE Spec2Model ----
(***************************************************************************)
(* Model of the evidence-gathering and synthesis pipeline of the backend   *)
(* (app/routers/hypothesis.py, app/routers/retriever.py,                   *)
(* app/core/rag_pipeline.py, app/core/llm_agent.py,                        *)
(* app/core/summary_generator.py, app/core/kg_pipeline.py,                 *)
(* app/models/schema.py) and of the graph router (app/routers/kg.py).      *)
(*                                                                         *)
(* Conventions.                                                            *)
(*  - A Python str is a sequence of one-character strings, so that strip() *)
(*    and lower() are computed and not assumed.                            *)
(*  - A confidence_score is an integer number of tenths (0.6 is 6).        *)
(*  - An optional value is a sequence of length 0 or 1.                    *)
(*  - A note is a sequence of segments [t |-> format text, n |-> number    *)
(*    substituted into it].                                                *)
(*  - The request handlers are "async def" without any await: a handler    *)
(*    runs to completion before the next request starts.  It is split into *)
(*    its stages so that the order of backend calls is observable.         *)
(***************************************************************************)
EXTENDS Integers, Sequences, FiniteSets, TLC

VARIABLES
    vectorstore,        \* RAGPipeline.vectorstore is not None, per router module
    kg_driver,          \* KGPipeline.driver is not None, per module that builds one
    llm_agent,          \* "agent_failed" | "no_model" | "model"
    pc,                 \* position of the request being handled
    op,                 \* "none" | "generate" | "search"
    query,              \* payload.query (raw)
    top_k,              \* payload.top_k / k
    backend,            \* outcome of similarity_search_with_score in this request
    candidates,         \* raw pmid metadata of the ranked backend results
    evidence_out,       \* List[EvidenceItem]
    missing_pmid_count,
    entities_out,       \* entities_unique once stage 2 has built it: <<>> or <<list>>
    kg_entities,        \* the entities the graph query of this request searched
    kg_triples_out,
    summary_out,
    hypotheses_out,
    note,
    gen,                \* which branch hypothesis generation took
    llm_output,         \* what the generative backend did when asked for hypotheses
    calls,              \* backend calls made while handling this request
    status,             \* HTTP status of the finished request, 0 while running
    response,           \* body of a 200 response
    temperature,        \* payload.temperature, in tenths
    llm_temperature,    \* LLMAgent.llm.temperature, in tenths
    llm_temps,          \* client temperatures under which llm.invoke ran in this request
    call,               \* the /api/kg request or the direct call being served
    result,             \* its outcome
    chroma_dir,         \* what the chroma_db directory holds
    built               \* a build-index request has succeeded in this process

vars == <<vectorstore, kg_driver, llm_agent, pc, op, query, top_k, backend,
          candidates, evidence_out, missing_pmid_count, entities_out,
          kg_entities, kg_triples_out, summary_out, hypotheses_out, note, gen,
          llm_output, calls, status, response, temperature, llm_temperature,
          llm_temps, call, result, chroma_dir, built>>

-----------------------------------------------------------------------------
(* Bounds of the model *)

MaxCands == 2
MaxHyps == 2

-----------------------------------------------------------------------------
(* Python str helpers *)

IsSpace(c) == c = " "

LowerChar(c) ==
    CASE c = "A" -> "a"
      [] c = "B" -> "b"
      [] c = "C" -> "c"
      [] c = "D" -> "d"
      [] c = "E" -> "e"
      [] c = "F" -> "f"
      [] c = "G" -> "g"
      [] c = "H" -> "h"
      [] c = "I" -> "i"
      [] c = "J" -> "j"
      [] c = "K" -> "k"
      [] c = "L" -> "l"
      [] c = "M" -> "m"
      [] c = "N" -> "n"
      [] c = "O" -> "o"
      [] c = "P" -> "p"
      [] c = "Q" -> "q"
      [] c = "R" -> "r"
      [] c = "S" -> "s"
      [] c = "T" -> "t"
      [] c = "U" -> "u"
      [] c = "V" -> "v"
      [] c = "W" -> "w"
      [] c = "X" -> "x"
      [] c = "Y" -> "y"
      [] c = "Z" -> "z"
      [] OTHER -> c

Lower(s) == [i \in 1..Len(s) |-> LowerChar(s[i])]

RECURSIVE LStrip(_)
LStrip(s) == IF s # <<>> /\ IsSpace(Head(s)) THEN LStrip(Tail(s)) ELSE s

RECURSIVE RStrip(_)
RStrip(s) ==
    IF s # <<>> /\ IsSpace(s[Len(s)]) THEN RStrip(SubSeq(s, 1, Len(s) - 1)) ELSE s

Strip(s) == RStrip(LStrip(s))

\* str.split() without arguments: the maximal runs of non-space characters
RECURSIVE SplitFrom(_, _, _)
SplitFrom(s, i, word) ==
    IF i > Len(s) THEN (IF word = <<>> THEN <<>> ELSE <<word>>)
    ELSE IF IsSpace(s[i])
         THEN (IF word = <<>> THEN <<>> ELSE <<word>>) \o SplitFrom(s, i + 1, <<>>)
         ELSE SplitFrom(s, i + 1, Append(word, s[i]))

Split(s) == SplitFrom(s, 1, <<>>)

\* str.replace(",", " ")
ReplaceCommas(s) == [i \in 1..Len(s) |-> IF s[i] = "," THEN " " ELSE s[i]]

IsDigit(c) == c \in {"0", "1", "2", "3", "4", "5", "6", "7", "8", "9"}

-----------------------------------------------------------------------------
(* Inputs *)

\* payload.query values: empty, blank, and one word
Queries == { <<>>, <<" ">>, <<"a", "l", "z">> }

\* metadata of one backend result: the "pmid" key may be absent
NoPmid == [present |-> FALSE, val |-> <<>>]
StrPmid(s) == [present |-> TRUE, val |-> s]

RawPmids ==
    { NoPmid,
      StrPmid(<<"N", "a", "N">>),
      StrPmid(<<"1">>),
      StrPmid(<<"2">>),
      StrPmid(<<"1", " ">>) }

RECURSIVE SeqsUpTo(_, _)
SeqsUpTo(S, n) ==
    IF n = 0 THEN { <<>> }
    ELSE LET shorter == SeqsUpTo(S, n - 1)
         IN  shorter \cup { Append(s, x) : s \in { t \in shorter : Len(t) = n - 1 }, x \in S }

-----------------------------------------------------------------------------
(* app/core/rag_pipeline.py *)

\* meta.get("pmid", "")
MetaGetPmid(meta) == IF meta.present THEN meta.val ELSE <<>>

Sentinels == { <<"n", "a", "n">>, <<"n", "o", "n", "e">>, <<>> }

\* variant: the sentinel test without lower()
PmidRejected_case_sensitive(pmid) == pmid = <<>> \/ pmid \in Sentinels

\* "not pmid or pmid.lower() in {...}"
PmidRejected(pmid) == pmid = <<>> \/ Lower(pmid) \in Sentinels

\* the loop of retrieve over results[i..], with seen_pmids = seen
RECURSIVE RetrieveLoop(_, _, _)
RetrieveLoop(results, i, seen) ==
    IF i > Len(results) THEN <<>>
    ELSE LET pmid == Strip(MetaGetPmid(results[i]))
         IN  IF PmidRejected(pmid) THEN RetrieveLoop(results, i + 1, seen)
             ELSE IF pmid \in seen THEN RetrieveLoop(results, i + 1, seen)
             ELSE <<[pmid |-> pmid, title |-> i]>>
                      \o RetrieveLoop(results, i + 1, seen \cup {pmid})

\* variant: readiness reported whether or not a store is loaded
is_ready_always(store) == TRUE

\* RAGPipeline.is_ready: "self.vectorstore is not None"
is_ready(store) == store

\* RAGPipeline.retrieve: result and whether an exception leaves the method
retrieve(store, searched) ==
    IF ~is_ready(store) THEN [raised |-> FALSE, out |-> <<>>]
    ELSE IF searched.raised THEN [raised |-> FALSE, out |-> <<>>]
    ELSE [raised |-> FALSE, out |-> RetrieveLoop(searched.results, 1, {})]

-----------------------------------------------------------------------------
(* app/routers/hypothesis.py: conversion of raw_results into EvidenceItem *)

\* "not pmid or str(pmid).strip() == ''" for the pmid of a retrieve() dict
RouterPmidMissing(pmid) == pmid = <<>> \/ Strip(pmid) = <<>>

RECURSIVE ConvertLoop(_, _)
ConvertLoop(raw_results, i) ==
    IF i > Len(raw_results) THEN [evidence |-> <<>>, missing |-> 0]
    ELSE LET rest == ConvertLoop(raw_results, i + 1)
             item == raw_results[i]
         IN  IF RouterPmidMissing(item.pmid)
             THEN [evidence |-> rest.evidence, missing |-> rest.missing + 1]
             ELSE [evidence |-> <<item>> \o rest.evidence, missing |-> rest.missing]

\* evidence[:n]
Take(s, n) == SubSeq(s, 1, IF Len(s) < n THEN Len(s) ELSE n)

-----------------------------------------------------------------------------
(* Notes *)

Seg(t, n) == [t |-> t, n |-> n]

\* f"Retrieved {len(evidence_out)} evidence items. {missing_pmid_count} items skipped due to missing pmid."
BaseNote(n, m) ==
    << Seg("Retrieved {} evidence items.", n),
       Seg("{} items skipped due to missing pmid.", m) >>

NoteUnavailable == << Seg(" Used fallback hypothesis generation (LLM not available).", 0) >>
NoteError == << Seg(" Error in LLM generation: {}. Used fallback.", 0) >>
NoteAgentFallback == << Seg("Generated using fallback method (LLM parsing failed)", 0) >>
NoteAgentDefault == << Seg("Hypotheses generated successfully with research summary", 0) >>
\* the string under the "note" key of a model output
NoteOfOutput == << Seg("note of the model output", 0) >>

-----------------------------------------------------------------------------
(* app/models/schema.py *)

DefaultConfidence == 7
FallbackConfidence == 6
MinConfidence == 0
MaxConfidence == 10

\* the fields of SuggestedExperiment without a default
RequiredExperimentKeys == {"model", "intervention", "primary_outcome", "design_summary"}

\* SuggestedExperiment(**e) raises ValidationError unless this holds; e maps
\* the keys of the dict to their strings
ExperimentValid(e) == RequiredExperimentKeys \subseteq DOMAIN e

\* the SuggestedExperiment object built from a valid dict
MakeExperiment(e) ==
    [ model |-> e.model,
      intervention |-> e.intervention,
      primary_outcome |-> e.primary_outcome,
      design_summary |-> e.design_summary,
      safety_measures |-> IF "safety_measures" \in DOMAIN e
                          THEN e.safety_measures ELSE "None" ]

\* the members of the Plausibility enum
Plausibilities == {"High", "Medium", "Low"}

\* variant: confidence_score declared with ge=0.0 only
HypothesisValid_no_upper(hyp_data) ==
    /\ hyp_data.required
    /\ hyp_data.suggested_experiment # <<>>
    /\ ExperimentValid(hyp_data.suggested_experiment[1])
    /\ \/ hyp_data.plausibility = <<>>
       \/ hyp_data.plausibility[1] \in Plausibilities
    /\ \/ hyp_data.confidence_score = <<>>
       \/ hyp_data.confidence_score[1] >= MinConfidence

\* Hypothesis(**hyp_data) raises ValidationError unless this holds
HypothesisValid(hyp_data) ==
    /\ hyp_data.required
    /\ hyp_data.suggested_experiment # <<>>
    /\ ExperimentValid(hyp_data.suggested_experiment[1])
    /\ \/ hyp_data.plausibility = <<>>
       \/ hyp_data.plausibility[1] \in Plausibilities
    /\ \/ hyp_data.confidence_score = <<>>
       \/ /\ hyp_data.confidence_score[1] >= MinConfidence
          /\ hyp_data.confidence_score[1] <= MaxConfidence

\* the Hypothesis object built from a valid record: each optional field is
\* that of the record when it has one, the declared default otherwise
MakeHypothesis(hyp_data) ==
    [ id |-> hyp_data.id,
      confidence_score |-> IF hyp_data.confidence_score = <<>>
                           THEN DefaultConfidence
                           ELSE hyp_data.confidence_score[1],
      plausibility |-> IF hyp_data.plausibility = <<>>
                       THEN "Medium"
                       ELSE hyp_data.plausibility[1],
      supporting_evidence |-> IF hyp_data.supporting_evidence = <<>>
                              THEN <<>>
                              ELSE hyp_data.supporting_evidence[1],
      suggested_experiment |-> MakeExperiment(hyp_data.suggested_experiment[1]) ]

-----------------------------------------------------------------------------
(* Fallback constructions *)

\* variant: every evidence item is cited
SupportingEvidence_uncapped(evidence) ==
    [i \in 1..Len(evidence) |-> evidence[i].pmid]

\* one entry per item of evidence[:3]; the pmid stands for the text
\* "PMID {pmid}: {title} - {snippet}..." built from the item
SupportingEvidence(evidence) ==
    LET top == Take(evidence, 3) IN [i \in 1..Len(top) |-> top[i].pmid]

FallbackHypothesis(evidence) ==
    [ id |-> <<"H", "1">>,
      confidence_score |-> FallbackConfidence,
      plausibility |-> "Medium",
      supporting_evidence |-> SupportingEvidence(evidence),
      suggested_experiment |->
          MakeExperiment([ model |-> "fallback design",
                           intervention |-> "fallback design",
                           primary_outcome |-> "fallback design",
                           design_summary |-> "fallback design",
                           safety_measures |-> "fallback design" ]) ]

\* variant: the hypothesis is built but never appended
create_fallback_hypothesis_no_append(evidence) == <<>>

\* routers/hypothesis.py create_fallback_hypothesis
create_fallback_hypothesis(evidence) ==
    IF evidence # <<>> THEN << FallbackHypothesis(evidence) >> ELSE <<>>

\* routers/hypothesis.py create_fallback_summary
create_fallback_summary(evidence) ==
    [overview |-> "Research analysis on '{query}' based on {n} retrieved papers",
     n |-> Len(evidence)]

-----------------------------------------------------------------------------
(* app/core/summary_generator.py *)

SummaryOutcomes == {"raise", "undecodable", "valid"}

\* SummaryGenerator.generate_summary; invoked counts the calls of llm.invoke
SummaryGenerator_generate_summary(has_llm, evidence, outcome) ==
    IF evidence = <<>>
    THEN [summary |-> [overview |-> "No papers retrieved for query: {query}", n |-> 0],
          invoked |-> 0]
    ELSE IF has_llm
    THEN IF outcome = "valid"
         THEN [summary |-> [overview |-> "overview of the model output", n |-> Len(evidence)],
               invoked |-> 1]
         ELSE [summary |-> [overview |-> "Research on {query} based on {n} retrieved papers",
                            n |-> Len(evidence)],
               invoked |-> 1]
    ELSE [summary |-> [overview |-> "Research on {query} based on {n} retrieved papers",
                       n |-> Len(evidence)],
          invoked |-> 0]

-----------------------------------------------------------------------------
(* app/core/llm_agent.py *)

\* one record of the "hypotheses" list; an optional key is <<>> when absent
\* and <<v>> when it holds v
HypData(id, conf, required, experiment, plausibility, supporting_evidence) ==
    [id |-> id, confidence_score |-> conf, required |-> required,
     suggested_experiment |-> experiment, plausibility |-> plausibility,
     supporting_evidence |-> supporting_evidence]

\* a "supporting_evidence" list of one snippet, citing pmid 9
GivenEvidence == << <<"9">> >>

\* a "suggested_experiment" dict with every key, as the prompt asks for
GivenExperiment ==
    [ model |-> "given", intervention |-> "given", primary_outcome |-> "given",
      design_summary |-> "given", safety_measures |-> "given" ]

\* variant: the placeholder lacks design_summary
PlaceholderExperiment_no_design ==
    [ model |-> "Not specified", intervention |-> "Not specified",
      primary_outcome |-> "Not specified" ]

\* the dict stored under "suggested_experiment" when the record has none,
\* lines 199-205
PlaceholderExperiment ==
    [ model |-> "Not specified", intervention |-> "Not specified",
      primary_outcome |-> "Not specified", design_summary |-> "Not specified" ]

\* lines 198-205: if "suggested_experiment" not in hyp_data
WithExperiment(hyp_data) ==
    IF hyp_data.suggested_experiment = <<>>
    THEN [hyp_data EXCEPT !.suggested_experiment = <<PlaceholderExperiment>>]
    ELSE hyp_data

\* records of the "hypotheses" list of a parsed model output:
\* required = id, statement, mechanistic_rationale and limitations are present
\* and well typed; the "suggested_experiment" key is absent (<<>>) or holds a
\* dict
HypRecords ==
    { HypData(<<"H", "1">>, <<>>, TRUE, <<>>, <<>>, <<>>),
      HypData(<<"x">>, <<0>>, TRUE, <<GivenExperiment>>, <<"High">>, <<GivenEvidence>>),
      HypData(<<"H", "3">>, <<11>>, TRUE, <<>>, <<"Low">>, <<>>),
      HypData(<<"H", "1">>, <<10>>, FALSE, <<GivenExperiment>>, <<>>, <<GivenEvidence>>) }

\* what the generative backend does when asked for hypotheses:
\*   escape       an exception leaves generate_hypothesis before its try block
\*   raise        llm.invoke raises
\*   undecodable  _clean_json_response or json.loads raises
\*   no_key       the parsed object has no "hypotheses" key
\*   parsed       the parsed object has a "hypotheses" list; its "note" key is
\*                absent, empty or null ("empty"), a non-empty string ("text")
\*                or a value that is not a string ("non_string")
\* an output that has the "note" key has a list of at most one record
HypOutputs ==
    { [kind |-> k, hypotheses |-> <<>>, note |-> "absent"] :
          k \in {"escape", "raise", "undecodable", "no_key"} }
    \cup
    { [kind |-> "parsed", hypotheses |-> h, note |-> "absent"] :
          h \in SeqsUpTo(HypRecords, MaxHyps) }
    \cup
    { [kind |-> "parsed", hypotheses |-> h, note |-> n] :
          h \in SeqsUpTo(HypRecords, 1), n \in {"empty", "text", "non_string"} }

\* the loop over parsed_response["hypotheses"]: invalid records are skipped
RECURSIVE ValidateLoop(_, _)
ValidateLoop(records, i) ==
    IF i > Len(records) THEN <<>>
    ELSE IF HypothesisValid(WithExperiment(records[i]))
         THEN <<MakeHypothesis(WithExperiment(records[i]))>>
                  \o ValidateLoop(records, i + 1)
         ELSE ValidateLoop(records, i + 1)

\* LLMAgent._create_fallback_hypothesis
LLMAgent_create_fallback_hypothesis(evidence, summary) ==
    [ hypotheses |-> << FallbackHypothesis(evidence) >>,
      summary |-> summary,
      kg_triples |-> <<>>,
      note |-> NoteAgentFallback ]

\* parsed_response.get("note", "Hypotheses generated successfully ...") as a
\* string note: the default when the key is absent, the text of the output
\* when it has one, nothing when it is empty or null
ParsedNote(n) ==
    IF n = "absent" THEN NoteAgentDefault
    ELSE IF n = "text" THEN NoteOfOutput
    ELSE <<>>

\* LLMAgent.generate_hypothesis.  A parsed output whose note is not a string
\* fails the validation of HypothesisResponse inside the try block, after the
\* records were converted, and the fallback response is returned
LLMAgent_generate_hypothesis(has_llm, evidence, triples, sum_outcome, out) ==
    LET s == SummaryGenerator_generate_summary(has_llm, evidence, sum_outcome)
        fb == LLMAgent_create_fallback_hypothesis(evidence, s.summary)
    IN  IF ~has_llm
        THEN [raised |-> FALSE, resp |-> fb, path |-> "agent_fallback",
              llm_summary |-> s.invoked, llm_hypotheses |-> 0,
              set_temperature |-> FALSE]
        ELSE IF out.kind = "escape"
        THEN [raised |-> TRUE, resp |-> fb, path |-> "error",
              llm_summary |-> s.invoked, llm_hypotheses |-> 0,
              set_temperature |-> TRUE]
        ELSE IF out.kind = "parsed" /\ out.note # "non_string"
        THEN [raised |-> FALSE,
              resp |-> [ hypotheses |-> ValidateLoop(out.hypotheses, 1),
                         summary |-> s.summary,
                         kg_triples |-> triples,
                         note |-> ParsedNote(out.note) ],
              path |-> "primary",
              llm_summary |-> s.invoked, llm_hypotheses |-> 1,
              set_temperature |-> TRUE]
        ELSE [raised |-> FALSE, resp |-> fb, path |-> "agent_fallback",
              llm_summary |-> s.invoked, llm_hypotheses |-> 1,
              set_temperature |-> TRUE]

-----------------------------------------------------------------------------
(* Decoding of generated text: llm_agent.py and summary_generator.py *)

\* A response of the generative backend is a sequence of lexical pieces, each
\* standing for the substring it names:
\*   "fence_json"       the fence marker of three backquotes followed by json
\*   "fence"            the fence marker of three backquotes alone
\*   "{", "}", ","      JSON punctuation
\*   " "                whitespace
\*   "members"          the text of the members carrying every required key
\*   "prose"            words that are not JSON
FenceJson == "fence_json"
Fence == "fence"
Pieces == {FenceJson, Fence, "{", "}", ",", " ", "members", "prose"}

\* the least index i >= from with s[i] in toks, 0 if there is none
RECURSIVE IndexFrom(_, _, _)
IndexFrom(s, toks, from) ==
    IF from > Len(s) THEN 0
    ELSE IF s[from] \in toks THEN from
    ELSE IndexFrom(s, toks, from + 1)

\* the text up to the next fence marker
UpToFence(s) ==
    LET j == IndexFrom(s, {Fence, FenceJson}, 1)
    IN  IF j = 0 THEN s ELSE SubSeq(s, 1, j - 1)

\* the removal of markdown code blocks, the same lines in both modules:
\*   if FenceJson in c: c = c.split(FenceJson)[1].split(Fence)[0].strip()
\*   elif Fence in c:   c = c.split(Fence)[1].strip()
\* where split(Fence) also splits at a FenceJson marker, which begins with it
strip_code_block(response_content) ==
    LET i == IndexFrom(response_content, {FenceJson}, 1)
        k == IndexFrom(response_content, {Fence}, 1)
    IN  IF i # 0
        THEN Strip(UpToFence(SubSeq(response_content, i + 1, Len(response_content))))
        ELSE IF k # 0
        THEN Strip(UpToFence(SubSeq(response_content, k + 1, Len(response_content))))
        ELSE response_content

\* re.sub of a comma, any whitespace and the closing character by the closing
\* character alone
RECURSIVE SubTrailingComma(_, _, _)
SubTrailingComma(s, close, i) ==
    IF i > Len(s) THEN <<>>
    ELSE LET j == IndexFrom(s, Pieces \ {" "}, i + 1)
         IN  IF s[i] = "," /\ j # 0 /\ s[j] = close
             THEN <<close>> \o SubTrailingComma(s, close, j + 1)
             ELSE <<s[i]>> \o SubTrailingComma(s, close, i + 1)

\* the greatest index i with s[i] = tok, 0 if there is none
RECURSIVE LastIndex(_, _, _)
LastIndex(s, tok, i) ==
    IF i = 0 THEN 0
    ELSE IF s[i] = tok THEN i
    ELSE LastIndex(s, tok, i - 1)

\* re.search of an opening brace, anything, a closing brace (greedy, DOTALL):
\* from the first "{" to the last "}"
SearchObject(s) ==
    LET i == IndexFrom(s, {"{"}, 1)
        j == LastIndex(s, "}", Len(s))
    IN  IF i # 0 /\ j > i
        THEN [found |-> TRUE, group |-> SubSeq(s, i, j)]
        ELSE [found |-> FALSE, group |-> <<>>]

\* LLMAgent._clean_json_response
clean_json_response(response_content) ==
    LET c1 == strip_code_block(response_content)
        c2 == SubTrailingComma(c1, "}", 1)
        c3 == SubTrailingComma(c2, "]", 1)
        m  == SearchObject(c3)
    IN  IF Strip(c3) # <<>> /\ Head(Strip(c3)) = "{"
        THEN [raised |-> FALSE, value |-> Strip(c3)]
        ELSE IF m.found
        THEN [raised |-> FALSE, value |-> Strip(m.group)]
        ELSE [raised |-> TRUE, value |-> <<>>]

\* the text without its whitespace
Squeeze(s) == SelectSeq(s, LAMBDA c : c # " ")

\* t is a comma-separated list of members: members ("," members)*
RECURSIVE IsMemberList(_)
IsMemberList(t) ==
    /\ t # <<>>
    /\ Head(t) = "members"
    /\ \/ Len(t) = 1
       \/ Len(t) >= 3 /\ t[2] = "," /\ IsMemberList(SubSeq(t, 3, Len(t)))

\* json.loads(s): "object" for an object with the required keys, "empty" for
\* the object {}, "error" for a JSONDecodeError
json_loads(s) ==
    LET t == Squeeze(s)
    IN  IF t = <<"{", "}">> THEN "empty"
        ELSE IF Len(t) >= 3 /\ Head(t) = "{" /\ t[Len(t)] = "}"
                /\ IsMemberList(SubSeq(t, 2, Len(t) - 1))
        THEN "object"
        ELSE "error"

\* the decoding in SummaryGenerator.generate_summary, lines 79-88: TRUE when
\* SummarySection(**summary_data) is returned, FALSE when the fallback summary
\* is
summary_is_primary(response_content) ==
    json_loads(strip_code_block(response_content)) = "object"

\* the decoding in LLMAgent.generate_hypothesis, lines 184-230: TRUE when the
\* parsed object has the "hypotheses" key, FALSE when the fallback is returned
hypotheses_are_primary(response_content) ==
    LET c == clean_json_response(response_content)
    IN  ~c.raised /\ json_loads(c.value) = "object"

-----------------------------------------------------------------------------
(* app/core/kg_pipeline.py *)

Triple == [subject |-> "s", relation |-> "r", object |-> "o"]

\* what the graph backend does with the query of query_kg
GraphOutcomes ==
    { [raised |-> TRUE, records |-> <<>>],
      [raised |-> FALSE, records |-> <<>>],
      [raised |-> FALSE, records |-> <<Triple>>] }

\* the list comprehension of _extract_entities over the split query
RECURSIVE EntityTokens(_, _)
EntityTokens(words, i) ==
    IF i > Len(words) THEN <<>>
    ELSE IF Len(Strip(words[i])) > 2
         THEN <<Lower(Strip(words[i]))>> \o EntityTokens(words, i + 1)
         ELSE EntityTokens(words, i + 1)

MaxEntityCount == 6

\* the loop of _extract_entities: first occurrences, left once six are seen
RECURSIVE SeenLoop(_, _, _)
SeenLoop(tokens, i, seen) ==
    IF i > Len(tokens) THEN seen
    ELSE LET seen1 == IF \E k \in 1..Len(seen) : seen[k] = tokens[i]
                      THEN seen ELSE Append(seen, tokens[i])
         IN  IF Len(seen1) >= MaxEntityCount THEN seen1
             ELSE SeenLoop(tokens, i + 1, seen1)

Disease == <<"d", "i", "s", "e", "a", "s", "e">>
Treatment == <<"t", "r", "e", "a", "t", "m", "e", "n", "t">>
Gene == <<"g", "e", "n", "e">>

\* KGPipeline._extract_entities
extract_entities(text) ==
    IF text = <<>> THEN <<Disease, Treatment, Gene>>
    ELSE LET seen == SeenLoop(EntityTokens(Split(ReplaceCommas(text)), 1), 1, <<>>)
         IN  IF seen = <<>> THEN <<Disease>> ELSE seen

\* KGPipeline.query_kg: RuntimeError when the driver is not connected, an
\* empty list when the query fails
query_kg(ready, outcome) ==
    IF ~ready THEN [raised |-> TRUE, triples |-> <<>>]
    ELSE IF outcome.raised THEN [raised |-> FALSE, triples |-> <<>>]
    ELSE [raised |-> FALSE, triples |-> outcome.records]

\* str(e) of the exception a failing backend query raises, and of the
\* RuntimeError of a pipeline that is not connected
BackendMessage == "query failed"
NotConnected == "Neo4j driver not connected"

\* KGPipeline.execute_cypher: RuntimeError when the driver is not connected;
\* the error of a failing query is logged and raised again.  ran counts the
\* session.run calls, passed holds the query text handed to the backend
execute_cypher(ready, cypher_query, outcome) ==
    IF ~ready
    THEN [raised |-> TRUE, msg |-> NotConnected, value |-> <<>>, ran |-> 0,
          passed |-> <<>>]
    ELSE IF outcome.raised
    THEN [raised |-> TRUE, msg |-> BackendMessage, value |-> <<>>, ran |-> 1,
          passed |-> <<cypher_query>>]
    ELSE [raised |-> FALSE, msg |-> "", value |-> outcome.records, ran |-> 1,
          passed |-> <<cypher_query>>]

\* KGPipeline.get_entities: RuntimeError when the driver is not connected, an
\* empty list when the query fails
get_entities(ready, outcome) ==
    IF ~ready
    THEN [raised |-> TRUE, msg |-> NotConnected, value |-> <<>>, ran |-> 0]
    ELSE IF outcome.raised
    THEN [raised |-> FALSE, msg |-> "", value |-> <<>>, ran |-> 1]
    ELSE [raised |-> FALSE, msg |-> "", value |-> outcome.records, ran |-> 1]

\* KGPipeline.get_relations: as get_entities
get_relations(ready, outcome) ==
    IF ~ready
    THEN [raised |-> TRUE, msg |-> NotConnected, value |-> <<>>, ran |-> 0]
    ELSE IF outcome.raised
    THEN [raised |-> FALSE, msg |-> "", value |-> <<>>, ran |-> 1]
    ELSE [raised |-> FALSE, msg |-> "", value |-> outcome.records, ran |-> 1]

\* KGPipeline.get_entity_neighborhood: an empty {"nodes", "relationships"} when
\* the query fails
\* depth holds the hop count written into the query text, "-[r*1..{hops}]-"
get_entity_neighborhood(ready, hops, outcome) ==
    IF ~ready
    THEN [raised |-> TRUE, msg |-> NotConnected, value |-> <<>>, ran |-> 0,
          depth |-> <<>>]
    ELSE IF outcome.raised
    THEN [raised |-> FALSE, msg |-> "", value |-> <<>>, ran |-> 1,
          depth |-> <<hops>>]
    ELSE [raised |-> FALSE, msg |-> "", value |-> outcome.records, ran |-> 1,
          depth |-> <<hops>>]

\* KGPipeline.find_paths_between_entities: an empty list when the query fails
\* depth holds the length written into the query text, "-[*..{max_path_length}]-"
find_paths_between_entities(ready, max_path_length, outcome) ==
    IF ~ready
    THEN [raised |-> TRUE, msg |-> NotConnected, value |-> <<>>, ran |-> 0,
          depth |-> <<>>]
    ELSE IF outcome.raised
    THEN [raised |-> FALSE, msg |-> "", value |-> <<>>, ran |-> 1,
          depth |-> <<max_path_length>>]
    ELSE [raised |-> FALSE, msg |-> "", value |-> outcome.records, ran |-> 1,
          depth |-> <<max_path_length>>]

\* the queries get_statistics runs, in order: the node count, the relationship
\* count, the labels, the relationship types
StatisticsQueries == 4

\* what the backend does for one statistics request: failing = 0 when every
\* query succeeds, k when queries 1..k-1 succeed and query k raises
StatisticsOutcomes ==
    { [raised |-> failing # 0, failing |-> failing, records |-> <<>>] :
        failing \in 0..StatisticsQueries }

\* the counts, labels and relationship types read from the graph
GraphStatistics ==
    [node_count |-> 2, relationship_count |-> 1, labels |-> <<"Gene">>,
     relationship_types |-> <<"TREATS">>]

\* the dictionary returned when one of the queries fails
ZeroStatistics ==
    [node_count |-> 0, relationship_count |-> 0, labels |-> <<>>,
     relationship_types |-> <<>>]

\* KGPipeline.get_statistics: RuntimeError when the driver is not connected;
\* four queries in a row, and the zero dictionary as soon as one of them
\* fails.  ran counts the queries issued
get_statistics(ready, outcome) ==
    IF ~ready
    THEN [raised |-> TRUE, msg |-> NotConnected, value |-> <<>>, ran |-> 0]
    ELSE IF outcome.failing # 0
    THEN [raised |-> FALSE, msg |-> "", value |-> ZeroStatistics,
          ran |-> outcome.failing]
    ELSE [raised |-> FALSE, msg |-> "", value |-> GraphStatistics,
          ran |-> StatisticsQueries]

\* the result of query_kg in the shape of the other pipeline methods
query_kg_call(ready, outcome) ==
    LET r == query_kg(ready, outcome)
    IN  [raised |-> r.raised, msg |-> IF r.raised THEN NotConnected ELSE "",
         value |-> r.triples, ran |-> IF ready THEN 1 ELSE 0]

-----------------------------------------------------------------------------
(* app/routers/kg.py *)

LowerLetters == <<"a", "b", "c", "d", "e", "f", "g", "h", "i", "j", "k", "l", "m", "n", "o", "p", "q", "r", "s", "t", "u", "v", "w", "x", "y", "z">>
UpperLetters == <<"A", "B", "C", "D", "E", "F", "G", "H", "I", "J", "K", "L", "M", "N", "O", "P", "Q", "R", "S", "T", "U", "V", "W", "X", "Y", "Z">>

\* str.upper() of one character
UpperChar(c) ==
    IF \E i \in 1..Len(LowerLetters) : LowerLetters[i] = c
    THEN UpperLetters[CHOOSE i \in 1..Len(LowerLetters) : LowerLetters[i] = c]
    ELSE c

Upper(s) == [i \in 1..Len(s) |-> UpperChar(s[i])]

\* Python's "tok in text" for two strings
Contains(tok, text) ==
    \E i \in 1..(Len(text) - Len(tok) + 1) : SubSeq(text, i, i + Len(tok) - 1) = tok

\* execute_cypher_query, line 132
dangerous ==
    { <<"D", "R", "O", "P">>,
      <<"D", "E", "L", "E", "T", "E">>,
      <<"R", "E", "M", "O", "V", "E">>,
      <<"C", "R", "E", "A", "T", "E">>,
      <<"M", "E", "R", "G", "E">>,
      <<"S", "E", "T">>,
      <<"D", "E", "T", "A", "C", "H">> }

\* variant: the query text is not upper-cased before the test
IsDangerous_case_sensitive(cypher_query) ==
    \E tok \in dangerous : Contains(tok, cypher_query)

\* execute_cypher_query, line 133
IsDangerous(cypher_query) ==
    \E tok \in dangerous : Contains(tok, Upper(cypher_query))

\* the query strings a client sends to POST /api/kg/cypher
CypherQueries ==
    { <<"M", "A", "T", "C", "H", " ", "(", "n", ")", " ", 
        "R", "E", "T", "U", "R", "N", " ", "n">>,
      <<"C", "R", "E", "A", "T", "E", "D", "_", "B", "Y">>,
      <<"d", "r", "o", "p">>,
      <<"m", "a", "t", "c", "h", " ", "(", "n", ")", " ", 
        "S", "e", "t", " ", "n", ".", "x", " ", "=", " ", "1">>,
      <<"R", "E", "T", "U", "R", "N", " ", "o", "f", "f", "s", "e", "t">>,
      <<"R", "E", "T", "U", "R", "N", " ", "1">>,
      <<>> }

Detail(t, e) == [t |-> t, e |-> e]

\* variant: no readiness test before the pipeline call
browse_endpoint_no_ready_check(ready, r, not_ready, error) ==
    IF r.raised
    THEN [status |-> 500, detail |-> Detail(error, r.msg), ran |-> r.ran,
          body |-> <<>>, passed |-> <<>>]
    ELSE [status |-> 200, detail |-> Detail("", ""), ran |-> r.ran,
          body |-> r.value, passed |-> <<>>]

\* the shape of the browsing endpoints of kg.py: 503 unless the pipeline is
\* ready, then the pipeline call r, and 500 carrying str(e) if it raises.
\* not_ready and error are the endpoint's detail texts
browse_endpoint(ready, r, not_ready, error) ==
    IF ~ready
    THEN [status |-> 503, detail |-> Detail(not_ready, ""), ran |-> 0,
          body |-> <<>>, passed |-> <<>>]
    ELSE IF r.raised
    THEN [status |-> 500, detail |-> Detail(error, r.msg), ran |-> r.ran,
          body |-> <<>>, passed |-> <<>>]
    ELSE [status |-> 200, detail |-> Detail("", ""), ran |-> r.ran,
          body |-> r.value, passed |-> <<>>]

MinHops == 1
MaxHops == 3
MinPathLength == 1
MaxPathLength == 5

\* variant: Query(..., ge=ge) without le
InBound_no_upper(value, ge, le) == value >= ge

\* the validation of a Query(..., ge=ge, le=le) parameter
InBound(value, ge, le) == value >= ge /\ value <= le

\* the answer to a request whose parameter fails validation: the handler is
\* not called
Unprocessable ==
    [status |-> 422, detail |-> Detail("validation error", ""), ran |-> 0,
     body |-> <<>>, passed |-> <<>>, depth |-> <<>>]

\* get_entity_neighborhood, lines 75-84
neighborhood_endpoint(ready, hops, outcome) ==
    IF ~InBound(hops, MinHops, MaxHops) THEN Unprocessable
    ELSE LET r == get_entity_neighborhood(ready, hops, outcome)
         IN  browse_endpoint(ready, r, "Knowledge Graph not available", "{e}")
                 @@ [depth |-> IF ready THEN r.depth ELSE <<>>]

\* find_path_between_entities, lines 87-96
path_endpoint(ready, max_path_length, outcome) ==
    IF ~InBound(max_path_length, MinPathLength, MaxPathLength) THEN Unprocessable
    ELSE LET r == find_paths_between_entities(ready, max_path_length, outcome)
         IN  browse_endpoint(ready, r, "Knowledge Graph not available", "{e}")
                 @@ [depth |-> IF ready THEN r.depth ELSE <<>>]

\* execute_cypher_query, lines 121-142
execute_cypher_query(ready, cypher_query, outcome) ==
    LET r == execute_cypher(ready, cypher_query, outcome)
    IN  IF ~ready
        THEN [status |-> 503, detail |-> Detail("Knowledge Graph not available", ""),
              ran |-> 0, body |-> <<>>, passed |-> <<>>]
        ELSE IF IsDangerous(cypher_query)
        THEN [status |-> 400,
              detail |-> Detail("Query appears to contain write/destructive operations. Only read queries allowed.", ""),
              ran |-> 0, body |-> <<>>, passed |-> <<>>]
        ELSE IF r.raised
        THEN [status |-> 500,
              detail |-> Detail("Error executing Cypher query: {e}", r.msg),
              ran |-> r.ran, body |-> <<>>, passed |-> r.passed]
        ELSE [status |-> 200, detail |-> Detail("", ""), ran |-> r.ran,
              body |-> r.value, passed |-> r.passed]

-----------------------------------------------------------------------------
(* app/routers/hypothesis.py: stage 2, the entities of the graph query *)

\* [t.strip() for t in text.split() if len(t) > 2]
RECURSIVE RouterTokens(_, _)
RouterTokens(words, i) ==
    IF i > Len(words) THEN <<>>
    ELSE IF Len(words[i]) > 2
         THEN <<Strip(words[i])>> \o RouterTokens(words, i + 1)
         ELSE RouterTokens(words, i + 1)

\* the loop over evidence_out[:3]: up to 3 tokens of each non-empty title
RECURSIVE TitleTokens(_, _)
TitleTokens(titles, i) ==
    IF i > Len(titles) THEN <<>>
    ELSE (IF titles[i] # <<>> THEN Take(RouterTokens(Split(titles[i]), 1), 3) ELSE <<>>)
         \o TitleTokens(titles, i + 1)

\* the dedupe loop: first occurrence of each lower-cased key, as spelled
RECURSIVE DedupeLoop(_, _, _)
DedupeLoop(entities, i, seen) ==
    IF i > Len(entities) THEN <<>>
    ELSE IF Lower(entities[i]) \in seen
         THEN DedupeLoop(entities, i + 1, seen)
         ELSE <<entities[i]>> \o DedupeLoop(entities, i + 1, seen \cup {Lower(entities[i])})

\* entities_unique of generate_hypothesis, lines 198-214
entities_unique(stripped_query, titles) ==
    DedupeLoop(Take(RouterTokens(Split(stripped_query), 1), 6)
                   \o TitleTokens(Take(titles, 3), 1),
               1, {})

\* entities_to_search of query_kg called with entities=entities_unique or None:
\* "entities or self._extract_entities(query)"
entities_to_search(entities, query_text) ==
    IF entities # <<>> THEN entities ELSE extract_entities(query_text)

\* the title an evidence item is built with: the title of the index document,
\* or "No title" when that is empty or missing
NoTitle == <<"N", "o", " ", "t", "i", "t", "l", "e">>
EvidenceTitle(title) == IF title = <<>> THEN NoTitle ELSE title
EvidenceTitles(titles) == [i \in 1..Len(titles) |-> EvidenceTitle(titles[i])]

\* the documents of the index: the title of the one the backend ranks
\* rank-th (every third one has none)
DocumentTitle(rank) ==
    CASE rank % 3 = 1 -> <<"T", "a", "u", " ", "p", "r", "o", "t", "e", "i", "n">>
      [] rank % 3 = 2 -> <<>>
      [] OTHER -> <<"a", "l", "z", " ", "i", "n", " ", "m", "i", "c", "e">>

-----------------------------------------------------------------------------
(* Building the index: rag_pipeline.py build_index, retriever.py *)

\* what happens to one build:
\*   missing        pubmed_results.csv does not exist
\*   bad_columns    the CSV lacks a required column
\*   no_documents   no row has a usable PMID
\*   store_fails    Chroma.from_texts raises before writing anything
\*   persist_fails  Chroma.from_texts writes files, then it or persist() raises
\*   reload_fails   the new store is persisted, then Chroma(...) raises
\*   ok             the new store is persisted and loaded
BuildOutcomes ==
    {"missing", "bad_columns", "no_documents", "store_fails", "persist_fails",
     "reload_fails", "ok"}

\* RAGPipeline.build_index: success is the returned boolean, store the value
\* of "self.vectorstore is not None" afterwards, dir what chroma_dir holds
RAGPipeline_build_index(store, dir, outcome) ==
    IF outcome \in {"missing", "bad_columns", "no_documents"}
    THEN [success |-> FALSE, store |-> store, dir |-> dir]
    ELSE IF outcome = "store_fails"
    THEN [success |-> FALSE, store |-> store, dir |-> "absent"]
    ELSE IF outcome = "persist_fails"
    THEN [success |-> FALSE, store |-> store, dir |-> "partial"]
    ELSE IF outcome = "reload_fails"
    THEN [success |-> FALSE, store |-> store, dir |-> "rebuilt"]
    ELSE [success |-> TRUE, store |-> TRUE, dir |-> "rebuilt"]

\* POST /api/retriever/build-index, retriever.py lines 31-55
build_index(store, dir, outcome) ==
    IF outcome = "missing"
    THEN [status |-> 404, success |-> FALSE, store |-> store, dir |-> dir]
    ELSE LET r == RAGPipeline_build_index(store, dir, outcome)
         IN  [status |-> IF r.success THEN 200 ELSE 500,
              success |-> r.success, store |-> r.store, dir |-> r.dir]

\* GET /api/retriever/status
vectorstore_status(store) == [status |-> 200, ready |-> is_ready(store)]

\* KGPipeline.is_ready: "self.driver is not None"
KGPipeline_is_ready(driver) == driver

\* LLMAgent.is_ready: "self.llm is not None and hasattr(self.llm, 'invoke')",
\* of an agent that was built
LLMAgent_is_ready(agent) == agent = "model"

\* variant: llm_ready = bool(llm_agent), without the call of is_ready
hypothesis_status_agent_only(store, driver, agent) ==
    [status |-> 200, pubmed_loaded |-> TRUE,
     chroma_ready |-> is_ready(store),
     neo4j_ready |-> KGPipeline_is_ready(driver),
     llm_ready |-> (agent # "agent_failed")]

\* GET /api/hypothesis/status, hypothesis.py lines 103-136, on the module's
\* rag_pipeline, kg_pipeline and llm_agent.  Each of the three is_ready
\* methods is a test of an attribute and returns a boolean, so the except
\* clauses of the handler are never entered
hypothesis_status(store, driver, agent) ==
    [status |-> 200, pubmed_loaded |-> TRUE,
     chroma_ready |-> is_ready(store),
     neo4j_ready |-> KGPipeline_is_ready(driver),
     llm_ready |-> (agent # "agent_failed" /\ LLMAgent_is_ready(agent))]

-----------------------------------------------------------------------------
(* app/routers/hypothesis.py: stage 4, hypotheses from the agent or fallback *)

\* variant: no except clause around the agent call
hypothesis_stage_no_except(agent, evidence, triples, summary, missing, sum_outcome, out) ==
    LET note0 == BaseNote(Len(evidence), missing)
        r == LLMAgent_generate_hypothesis(TRUE, evidence, triples, sum_outcome, out)
    IN  IF agent = "model"
        THEN [ propagated |-> r.raised,
               hypotheses |-> r.resp.hypotheses,
               summary |-> r.resp.summary,
               note |-> IF r.resp.note # <<>> THEN r.resp.note ELSE note0,
               gen |-> r.path,
               llm_summary |-> r.llm_summary,
               llm_hypotheses |-> r.llm_hypotheses,
               set_temperature |-> r.set_temperature ]
        ELSE [ propagated |-> FALSE,
               hypotheses |-> create_fallback_hypothesis(evidence),
               summary |-> summary,
               note |-> note0 \o NoteUnavailable,
               gen |-> "unavailable",
               llm_summary |-> 0,
               llm_hypotheses |-> 0,
               set_temperature |-> FALSE ]

\* lines 257-277: the try/except around the agent; propagated = an exception
\* leaves the handler
hypothesis_stage(agent, evidence, triples, summary, missing, sum_outcome, out) ==
    LET note0 == BaseNote(Len(evidence), missing)
        r == LLMAgent_generate_hypothesis(TRUE, evidence, triples, sum_outcome, out)
    IN  IF agent = "model"
        THEN IF r.raised
             THEN [ propagated |-> FALSE,
                    hypotheses |-> create_fallback_hypothesis(evidence),
                    summary |-> summary,
                    note |-> note0 \o NoteError,
                    gen |-> "error",
                    llm_summary |-> r.llm_summary,
                    llm_hypotheses |-> r.llm_hypotheses,
                    set_temperature |-> r.set_temperature ]
             ELSE [ propagated |-> FALSE,
                    hypotheses |-> r.resp.hypotheses,
                    summary |-> r.resp.summary,
                    note |-> IF r.resp.note # <<>> THEN r.resp.note ELSE note0,
                    gen |-> r.path,
                    llm_summary |-> r.llm_summary,
                    llm_hypotheses |-> r.llm_hypotheses,
                    set_temperature |-> r.set_temperature ]
        ELSE [ propagated |-> FALSE,
               hypotheses |-> create_fallback_hypothesis(evidence),
               summary |-> summary,
               note |-> note0 \o NoteUnavailable,
               gen |-> "unavailable",
               llm_summary |-> 0,
               llm_hypotheses |-> 0,
               set_temperature |-> FALSE ]

-----------------------------------------------------------------------------
(* State machine *)

Routers == {"hypothesis", "retriever"}

NoSummary == [overview |-> "", n |-> 0]
NoOutput == [kind |-> "none", hypotheses |-> <<>>, note |-> "absent"]
NoCalls == [retrieve |-> 0, kg |-> 0, llm_summary |-> 0, llm_hypotheses |-> 0]
NoResponse ==
    [summary |-> NoSummary, hypotheses |-> <<>>, evidence |-> <<>>,
     kg_triples |-> <<>>, note |-> <<>>]

\* what similarity_search_with_score(query, k) does: it raises, or it returns
\* at most k results
SearchOutcomes(k) ==
    { [raised |-> TRUE, results |-> <<>>] }
    \cup { [raised |-> FALSE, results |-> r] : r \in SeqsUpTo(RawPmids, k) }

\* QueryRequest.temperature defaults to 0.0; _initialize_llm builds the client
\* with temperature=0.0
DefaultTemperature == 0
InitialTemperature == 0
Temperatures == {0, 10}

NoCall == [name |-> "none"]
NoResult == [status |-> 0]

RequestIdle ==
    /\ pc = "idle"
    /\ op = "none"
    /\ query = <<>>
    /\ top_k = 0
    /\ backend = "none"
    /\ candidates = <<>>
    /\ evidence_out = <<>>
    /\ missing_pmid_count = 0
    /\ entities_out = <<>>
    /\ kg_entities = <<>>
    /\ kg_triples_out = <<>>
    /\ summary_out = NoSummary
    /\ hypotheses_out = <<>>
    /\ note = <<>>
    /\ gen = "none"
    /\ llm_output = NoOutput
    /\ calls = NoCalls
    /\ status = 0
    /\ response = NoResponse
    /\ temperature = DefaultTemperature
    /\ llm_temps = {}
    /\ call = NoCall
    /\ result = NoResult

\* the modules that build a KGPipeline each: routers/hypothesis.py and
\* routers/kg.py
GraphModules == {"hypothesis", "kg"}

\* module import: each router module builds its own RAGPipeline over the same
\* chroma_db directory, and holds a store only if the directory has an index
\* and its own loading did not fail; each KGPipeline() connects or not, and
\* so does LLMAgent()
Init ==
    /\ chroma_dir \in {"absent", "index"}
    /\ vectorstore \in [Routers -> BOOLEAN]
    /\ \A r \in Routers : vectorstore[r] => chroma_dir = "index"
    /\ built = FALSE
    /\ kg_driver \in [GraphModules -> BOOLEAN]
    /\ llm_agent \in {"agent_failed", "no_model", "model"}
    /\ llm_temperature = InitialTemperature
    /\ RequestIdle

Handles == <<vectorstore, kg_driver, llm_agent>>
Locals == <<backend, candidates, evidence_out, missing_pmid_count, entities_out, kg_entities,
            kg_triples_out, summary_out, hypotheses_out, note, gen, llm_output, calls, status,
            response, llm_temps>>
Direct == <<call, result>>
Index == <<chroma_dir, built>>

\* a request arrives: POST /api/hypothesis/generate or GET /api/retriever/search
StartWith(temps) ==
    /\ pc = "idle"
    /\ call = NoCall
    /\ \E o \in {"generate", "search"}, q \in Queries, k \in 1..MaxCands,
          t \in temps :
         /\ op' = o
         /\ query' = q
         /\ top_k' = k
         /\ temperature' = t
         /\ pc' = IF o = "generate" THEN "query_check" ELSE "search_ready_check"
    /\ UNCHANGED <<Handles, Index, Locals, Direct, llm_temperature>>

\* a request that leaves temperature to its default
Start == StartWith({DefaultTemperature})

\* variant: the query is tested as sent
StrippedQuery_as_sent(payload_query) == payload_query

\* generate_hypothesis, line 144: (payload.query or "").strip()
StrippedQuery(payload_query) == Strip(payload_query)

\* generate_hypothesis, lines 144-146
QueryCheck ==
    /\ pc = "query_check"
    /\ IF StrippedQuery(query) = <<>>
       THEN /\ status' = 400
            /\ pc' = "done"
       ELSE /\ status' = status
            /\ pc' = "ready_check"
    /\ UNCHANGED <<Handles, Index, Direct, entities_out, kg_entities,
                   llm_temperature, llm_temps, temperature,
                   op, query, top_k, backend, candidates, evidence_out,
                   missing_pmid_count, kg_triples_out, summary_out, hypotheses_out,
                   note, gen, llm_output, calls, response>>

\* generate_hypothesis, lines 148-157
ReadyCheck ==
    /\ pc = "ready_check"
    /\ IF ~is_ready(vectorstore["hypothesis"])
       THEN /\ status' = 503
            /\ pc' = "done"
       ELSE /\ status' = status
            /\ pc' = "retrieve"
    /\ UNCHANGED <<Handles, Index, Direct, entities_out, kg_entities,
                   llm_temperature, llm_temps, temperature,
                   op, query, top_k, backend, candidates, evidence_out,
                   missing_pmid_count, kg_triples_out, summary_out, hypotheses_out,
                   note, gen, llm_output, calls, response>>

\* generate_hypothesis, lines 159-193
RetrieveEvidenceFrom(outcomes) ==
    /\ pc = "retrieve"
    /\ \E searched \in outcomes :
         LET r == retrieve(vectorstore["hypothesis"], searched)
             conv == ConvertLoop(r.out, 1)
         IN  /\ backend' = IF searched.raised THEN "raised" ELSE "answered"
             /\ candidates' = searched.results
             /\ calls' = [calls EXCEPT !.retrieve = @ + 1]
             /\ IF r.raised
                THEN /\ status' = 500
                     /\ pc' = "done"
                     /\ UNCHANGED <<evidence_out, missing_pmid_count>>
                ELSE /\ status' = status
                     /\ pc' = "extract_entities"
                     /\ evidence_out' = conv.evidence
                     /\ missing_pmid_count' = conv.missing
    /\ UNCHANGED <<Handles, Index, Direct, entities_out, kg_entities,
                   llm_temperature, llm_temps, temperature,
                   op, query, top_k, kg_triples_out, summary_out,
                   hypotheses_out, note, gen, llm_output, response>>

RetrieveEvidence == RetrieveEvidenceFrom(SearchOutcomes(top_k))

\* entities_unique of a request, by its query and the ranks of the documents
\* its evidence items were built from (an item carries the title of its
\* document): the list of lines 198-214, tabulated over the requests of the
\* model so that each list is computed once
RequestEntities ==
    [q \in Queries |->
        [ranks \in SeqsUpTo(1..MaxCands, MaxCands) |->
            entities_unique(StrippedQuery(q),
                            EvidenceTitles([i \in 1..Len(ranks) |->
                                               DocumentTitle(ranks[i])]))]]

\* generate_hypothesis, lines 198-214: the entity list of the graph query is
\* built from the stripped query and the titles of the first evidence items,
\* whether or not the graph is connected
ExtractEntities ==
    /\ pc = "extract_entities"
    /\ entities_out' =
          << RequestEntities[query][[i \in 1..Len(evidence_out) |->
                                       evidence_out[i].title]] >>
    /\ pc' = "query_graph"
    /\ UNCHANGED <<Handles, Index, Direct, kg_entities, llm_temperature, llm_temps,
                   temperature, op, query, top_k, backend, candidates, evidence_out,
                   missing_pmid_count, kg_triples_out, summary_out, hypotheses_out,
                   note, gen, llm_output, calls, status, response>>

\* variant: the graph is queried on the query alone, before the entity list
\* is built
QueryGraph_before_entities ==
    /\ pc = "extract_entities"
    /\ IF KGPipeline_is_ready(kg_driver["hypothesis"])
       THEN \E outcome \in GraphOutcomes :
              LET r == query_kg(kg_driver["hypothesis"], outcome)
              IN  /\ kg_entities' = << entities_to_search(<<>>, StrippedQuery(query)) >>
                  /\ kg_triples_out' = IF r.raised THEN <<>> ELSE r.triples
                  /\ calls' = [calls EXCEPT !.kg = @ + 1]
       ELSE UNCHANGED <<kg_entities, kg_triples_out, calls>>
    /\ pc' = "summary"
    /\ UNCHANGED <<Handles, Index, Direct, entities_out, llm_temperature, llm_temps,
                   temperature, op, query, top_k, backend, candidates, evidence_out,
                   missing_pmid_count, summary_out, hypotheses_out, note, gen,
                   llm_output, status, response>>

\* generate_hypothesis, lines 216-244: query_kg runs on the entity list when
\* the graph is connected; a failure leaves no triples
QueryGraph ==
    /\ pc = "query_graph"
    /\ IF KGPipeline_is_ready(kg_driver["hypothesis"])
       THEN \E outcome \in GraphOutcomes :
              LET r == query_kg(kg_driver["hypothesis"], outcome)
              IN  /\ kg_entities' = << entities_to_search(entities_out[1],
                                                          StrippedQuery(query)) >>
                  /\ kg_triples_out' = IF r.raised THEN <<>> ELSE r.triples
                  /\ calls' = [calls EXCEPT !.kg = @ + 1]
       ELSE UNCHANGED <<kg_entities, kg_triples_out, calls>>
    /\ pc' = "summary"
    /\ UNCHANGED <<Handles, Index, Direct, entities_out, llm_temperature, llm_temps,
                   temperature, op, query, top_k, backend, candidates, evidence_out,
                   missing_pmid_count, summary_out, hypotheses_out, note, gen,
                   llm_output, status, response>>

\* stage 3 of generate_hypothesis, lines 246-255: the summary of the agent
\* object when there is one (with or without a model), otherwise the fallback
\* summary.  invoked counts the calls of llm.invoke
summary_stage(agent, evidence, outcome) ==
    IF agent # "agent_failed"
    THEN SummaryGenerator_generate_summary(agent = "model", evidence, outcome)
    ELSE [summary |-> create_fallback_summary(evidence), invoked |-> 0]

\* generate_hypothesis, lines 246-255
GenerateSummary ==
    /\ pc = "summary"
    /\ \E outcome \in (IF llm_agent = "model" THEN SummaryOutcomes ELSE {"valid"}) :
         LET r == summary_stage(llm_agent, evidence_out, outcome)
         IN  /\ summary_out' = r.summary
             /\ calls' = [calls EXCEPT !.llm_summary = @ + r.invoked]
             /\ llm_temps' = IF r.invoked = 1
                             THEN llm_temps \cup {llm_temperature}
                             ELSE llm_temps
    /\ pc' = "hypotheses"
    /\ UNCHANGED <<Handles, Index, Direct, entities_out, kg_entities, llm_temperature, temperature,
                   op, query, top_k, backend, candidates, evidence_out,
                   missing_pmid_count, kg_triples_out, hypotheses_out, note, gen,
                   llm_output, status, response>>

\* generate_hypothesis, lines 257-277
GenerateHypothesesFrom(outputs) ==
    /\ pc = "hypotheses"
    /\ \E sum_outcome \in (IF llm_agent = "model" THEN SummaryOutcomes ELSE {"valid"}),
          out \in (IF llm_agent = "model" THEN outputs ELSE {NoOutput}) :
         LET r == hypothesis_stage(llm_agent, evidence_out, kg_triples_out,
                                   summary_out, missing_pmid_count, sum_outcome, out)
         IN  /\ llm_output' = out
             /\ calls' = [calls EXCEPT !.llm_summary = @ + r.llm_summary,
                                       !.llm_hypotheses = @ + r.llm_hypotheses]
             /\ llm_temperature' = IF r.set_temperature THEN temperature
                                   ELSE llm_temperature
             /\ llm_temps' = llm_temps
                    \cup (IF r.llm_summary = 1 THEN {llm_temperature} ELSE {})
                    \cup (IF r.llm_hypotheses = 1 THEN {temperature} ELSE {})
             /\ gen' = r.gen
             /\ IF r.propagated
                THEN /\ status' = 500
                     /\ pc' = "done"
                     /\ UNCHANGED <<hypotheses_out, summary_out, note>>
                ELSE /\ status' = status
                     /\ pc' = "assemble"
                     /\ hypotheses_out' = r.hypotheses
                     /\ summary_out' = r.summary
                     /\ note' = r.note
    /\ UNCHANGED <<Handles, Index, Direct, entities_out, kg_entities, temperature,
                   op, query, top_k, backend, candidates, evidence_out,
                   missing_pmid_count, kg_triples_out, response>>

GenerateHypotheses == GenerateHypothesesFrom(HypOutputs)

\* generate_hypothesis, lines 279-286
Assemble ==
    /\ pc = "assemble"
    /\ response' = [summary |-> summary_out, hypotheses |-> hypotheses_out,
                    evidence |-> evidence_out, kg_triples |-> kg_triples_out,
                    note |-> note]
    /\ status' = 200
    /\ pc' = "done"
    /\ UNCHANGED <<Handles, Index, Direct, entities_out, kg_entities,
                   llm_temperature, llm_temps, temperature,
                   op, query, top_k, backend, candidates, evidence_out,
                   missing_pmid_count, kg_triples_out, summary_out, hypotheses_out,
                   note, gen, llm_output, calls>>

\* search_papers, lines 63-68
SearchReadyCheck ==
    /\ pc = "search_ready_check"
    /\ IF ~is_ready(vectorstore["retriever"])
       THEN /\ status' = 503
            /\ pc' = "done"
       ELSE /\ status' = status
            /\ pc' = "search_retrieve"
    /\ UNCHANGED <<Handles, Index, Direct, entities_out, kg_entities,
                   llm_temperature, llm_temps, temperature,
                   op, query, top_k, backend, candidates, evidence_out,
                   missing_pmid_count, kg_triples_out, summary_out, hypotheses_out,
                   note, gen, llm_output, calls, response>>

\* search_papers, lines 70-75
SearchRetrieveFrom(outcomes) ==
    /\ pc = "search_retrieve"
    /\ \E searched \in outcomes :
         LET r == retrieve(vectorstore["retriever"], searched)
         IN  /\ backend' = IF searched.raised THEN "raised" ELSE "answered"
             /\ candidates' = searched.results
             /\ calls' = [calls EXCEPT !.retrieve = @ + 1]
             /\ IF r.raised
                THEN /\ status' = 500
                     /\ response' = response
                ELSE /\ status' = 200
                     /\ response' = [response EXCEPT !.evidence = r.out]
    /\ pc' = "done"
    /\ UNCHANGED <<Handles, Index, Direct, entities_out, kg_entities,
                   llm_temperature, llm_temps, temperature,
                   op, query, top_k, evidence_out, missing_pmid_count,
                   kg_triples_out, summary_out, hypotheses_out, note, gen,
                   llm_output>>

SearchRetrieve == SearchRetrieveFrom(SearchOutcomes(top_k))

\* the response is sent; the handler's locals are gone
Finish ==
    /\ pc = "done"
    /\ pc' = "idle"
    /\ op' = "none"
    /\ query' = <<>>
    /\ top_k' = 0
    /\ backend' = "none"
    /\ candidates' = <<>>
    /\ evidence_out' = <<>>
    /\ missing_pmid_count' = 0
    /\ entities_out' = <<>>
    /\ kg_entities' = <<>>
    /\ kg_triples_out' = <<>>
    /\ summary_out' = NoSummary
    /\ hypotheses_out' = <<>>
    /\ note' = <<>>
    /\ gen' = "none"
    /\ llm_output' = NoOutput
    /\ calls' = NoCalls
    /\ status' = 0
    /\ response' = NoResponse
    /\ temperature' = DefaultTemperature
    /\ llm_temps' = {}
    /\ UNCHANGED <<Handles, Index, Direct, llm_temperature>>

\* a request to the /api/kg router is served in one step: the handlers have no
\* await.  The action that serves it sets call, which describes the request,
\* and result, the handler's outcome
Serve ==
    /\ pc = "idle"
    /\ call = NoCall
    /\ UNCHANGED <<Handles, Index, Locals, pc, op, query, top_k, temperature,
                   llm_temperature>>

KgCall(name, cypher_query, outcome) ==
    [name |-> name, cypher_query |-> cypher_query, outcome |-> outcome]

\* GET /api/kg/query, lines 19-44
KgQuery ==
    /\ Serve
    /\ \E outcome \in GraphOutcomes :
        /\ call' = KgCall("query", <<>>, outcome)
        /\ result' = browse_endpoint(kg_driver["kg"], query_kg_call(kg_driver["kg"], outcome),
                  "Knowledge Graph pipeline not ready. Please check Neo4j connection.",
                  "KG query error: {e}")

\* GET /api/kg/entities, lines 47-60
KgEntities ==
    /\ Serve
    /\ \E outcome \in GraphOutcomes :
        /\ call' = KgCall("entities", <<>>, outcome)
        /\ result' = browse_endpoint(kg_driver["kg"], get_entities(kg_driver["kg"], outcome),
                  "Knowledge Graph not available", "{e}")

\* GET /api/kg/relations, lines 63-72
KgRelations ==
    /\ Serve
    /\ \E outcome \in GraphOutcomes :
        /\ call' = KgCall("relations", <<>>, outcome)
        /\ result' = browse_endpoint(kg_driver["kg"], get_relations(kg_driver["kg"], outcome),
                  "Knowledge Graph not available", "{e}")

\* GET /api/kg/neighborhood/{entity}, lines 75-84
KgNeighborhood ==
    /\ Serve
    /\ \E hops \in (MinHops - 1)..(MaxHops + 1), outcome \in GraphOutcomes :
        /\ call' = KgCall("neighborhood", <<>>, outcome) @@ [depth |-> hops]
        /\ result' = neighborhood_endpoint(kg_driver["kg"], hops, outcome)

\* GET /api/kg/path/{entity1}/{entity2}, lines 87-96
KgPath ==
    /\ Serve
    /\ \E max_path_length \in (MinPathLength - 1)..(MaxPathLength + 1),
       outcome \in GraphOutcomes :
        /\ call' = KgCall("path", <<>>, outcome) @@ [depth |-> max_path_length]
        /\ result' = path_endpoint(kg_driver["kg"], max_path_length, outcome)

\* GET /api/kg/stats, lines 99-108
KgStatistics ==
    /\ Serve
    /\ \E outcome \in StatisticsOutcomes :
        /\ call' = KgCall("statistics", <<>>, outcome)
        /\ result' = browse_endpoint(kg_driver["kg"], get_statistics(kg_driver["kg"], outcome),
                  "Knowledge Graph not available", "{e}")

\* POST /api/kg/cypher, lines 121-142
KgCypher ==
    /\ Serve
    /\ \E cypher_query \in CypherQueries, outcome \in GraphOutcomes :
        /\ call' = KgCall("cypher", cypher_query, outcome)
        /\ result' = execute_cypher_query(kg_driver["kg"], cypher_query, outcome)

\* the response is sent, or the direct call has returned
Return ==
    /\ call # NoCall
    /\ call' = NoCall
    /\ result' = NoResult
    /\ UNCHANGED <<Handles, Index, Locals, pc, op, query, top_k, temperature,
                   llm_temperature>>


Next ==
    \/ Start
    \/ QueryCheck
    \/ ReadyCheck
    \/ RetrieveEvidence
    \/ ExtractEntities
    \/ QueryGraph
    \/ GenerateSummary
    \/ GenerateHypotheses
    \/ Assemble
    \/ SearchReadyCheck
    \/ SearchRetrieve
    \/ Finish
    \/ KgQuery
    \/ KgEntities
    \/ KgRelations
    \/ KgNeighborhood
    \/ KgPath
    \/ KgStatistics
    \/ KgCypher
    \/ Return

Spec == Init /\ [][Next]_vars

-----------------------------------------------------------------------------
(* Requests that set payload.temperature, over few backend answers *)

\* the backend raises, finds nothing, or finds one document
FewSearchOutcomes ==
    { o \in SearchOutcomes(1) :
        o.results \in {<<>>, <<StrPmid(<<"1">>)>>} }

\* the generative backend raises, answers undecodable text, or answers with at
\* most one record
FewHypOutputs == { o \in HypOutputs : Len(o.hypotheses) <= 1 }

TemperatureNext ==
    \/ StartWith(Temperatures)
    \/ QueryCheck
    \/ ReadyCheck
    \/ RetrieveEvidenceFrom(FewSearchOutcomes)
    \/ ExtractEntities
    \/ QueryGraph
    \/ GenerateSummary
    \/ GenerateHypothesesFrom(FewHypOutputs)
    \/ Assemble
    \/ SearchReadyCheck
    \/ SearchRetrieveFrom(FewSearchOutcomes)
    \/ Finish

TemperatureSpec == Init /\ [][TemperatureNext]_vars

-----------------------------------------------------------------------------
(* The service with index builds and status requests *)

\* POST /api/retriever/build-index, served in one step between requests: it
\* acts on the retriever module's pipeline and on the chroma_db directory
BuildIndex ==
    \E outcome \in BuildOutcomes :
        LET r == build_index(vectorstore["retriever"], chroma_dir, outcome)
        IN  /\ pc = "idle"
            /\ call = NoCall
            /\ call' = [name |-> "build_index", outcome |-> outcome,
                        ready |-> is_ready(vectorstore["retriever"]),
                        dir |-> chroma_dir]
            /\ result' = [status |-> r.status, success |-> r.success]
            /\ vectorstore' = [vectorstore EXCEPT !["retriever"] = r.store]
            /\ chroma_dir' = r.dir
            /\ built' = (built \/ r.success)
            /\ UNCHANGED <<kg_driver, llm_agent, Locals, pc, op, query, top_k,
                           temperature, llm_temperature>>

\* GET /api/retriever/status
RetrieverStatus ==
    /\ Serve
    /\ call' = [name |-> "retriever_status"]
    /\ result' = vectorstore_status(vectorstore["retriever"])

\* GET /api/hypothesis/status
HypothesisStatus ==
    /\ Serve
    /\ call' = [name |-> "hypothesis_status"]
    /\ result' = hypothesis_status(vectorstore["hypothesis"],
                                   kg_driver["hypothesis"], llm_agent)

IndexNext ==
    \/ Start
    \/ QueryCheck
    \/ ReadyCheck
    \/ RetrieveEvidenceFrom(FewSearchOutcomes)
    \/ ExtractEntities
    \/ QueryGraph
    \/ GenerateSummary
    \/ GenerateHypothesesFrom(FewHypOutputs)
    \/ Assemble
    \/ SearchReadyCheck
    \/ SearchRetrieveFrom(FewSearchOutcomes)
    \/ Finish
    \/ BuildIndex
    \/ RetrieverStatus
    \/ HypothesisStatus
    \/ Return

IndexSpec == Init /\ [][IndexNext]_vars

-----------------------------------------------------------------------------
(* Direct calls of pipeline functions, outside any request *)

MaxEntities == 2
EntityLists == SeqsUpTo({"tau", "app"}, MaxEntities)

\* kg_pipeline.query_kg(query, limit, entities) called on the pipeline as it
\* is, connected or not
CallQueryKg ==
    /\ Serve
    /\ \E entities \in EntityLists, outcome \in GraphOutcomes :
        /\ call' = [name |-> "query_kg", entities |-> entities, outcome |-> outcome]
        /\ result' = query_kg(kg_driver["hypothesis"], outcome)

MaxEvidence == 4
EvidencePmids == { <<"1">>, <<"2">>, <<"3">>, <<"4">>, <<"5">> }

\* evidence lists as the handler builds them: distinct pmids, title = rank
EvidenceLists ==
    { [i \in 1..Len(ids) |-> [pmid |-> ids[i], title |-> i]] :
        ids \in { q \in SeqsUpTo(EvidencePmids, MaxEvidence) :
                    \A i, j \in 1..Len(q) : i # j => q[i] # q[j] } }

\* stages 3 and 4 of generate_hypothesis run on an evidence list, with the
\* agent as it is: stage 4 is handed the summary stage 3 produced
CallHypothesisStage ==
    /\ Serve
    /\ \E evidence \in EvidenceLists,
       outcome \in (IF llm_agent = "model" THEN SummaryOutcomes ELSE {"valid"}),
       sum_outcome \in (IF llm_agent = "model" THEN SummaryOutcomes ELSE {"valid"}),
       out \in (IF llm_agent = "model" THEN FewHypOutputs ELSE {NoOutput}) :
        LET summary_out_3 == summary_stage(llm_agent, evidence, outcome).summary
        IN  /\ call' = [name |-> "hypothesis_stage", evidence |-> evidence,
                        summary_out |-> summary_out_3, out |-> out]
            /\ result' = hypothesis_stage(llm_agent, evidence, <<>>,
                                   summary_out_3, 0, sum_outcome, out)

MaxWords == 3
QueryWords == { <<>>, <<"t", "a", "u">>, <<"T", "a", "u">>, <<"a", "b">> }
Separators == { <<" ">>, <<",">> }

RECURSIVE Flatten(_)
Flatten(parts) == IF parts = <<>> THEN <<>> ELSE Head(parts) \o Flatten(Tail(parts))

\* query strings: up to MaxWords words, each followed by a space or a comma,
\* and two long ones with more than six distinct words
QueryTexts ==
    { Flatten(parts) :
        parts \in SeqsUpTo({ w \o sp : w \in QueryWords, sp \in Separators },
                           MaxWords) }
    \cup
    { <<"a", "m", "y", "l", "o", "i", "d", " ", "t", "a", "u", " ", "a", "p",
        "o", "e", " ", "g", "e", "n", "e", " ", "T", "r", "e", "m", "2", " ",
        "b", "a", "c", "e", "1", " ", "p", "s", "e", "n", "1", " ", "l", "i",
        "p", "i", "d">>,
      <<"t", "a", "u", ",", "T", "A", "U", " ", "a", "p", "o", "e", " ", ",",
        "t", "a", "u", ",", " ", " ", "G", "e", "n", "e", " ", "b", "a", "c",
        "e", "1", " ", "p", "s", "e", "n", "1", " ", "t", "r", "e", "m", "2",
        " ", "a", "p", "p", "1", " ", "l", "r", "p", "1">> }

\* kg_pipeline._extract_entities(query)
CallExtractEntities ==
    /\ Serve
    /\ \E text \in QueryTexts :
        /\ call' = [name |-> "extract_entities", query |-> text]
        /\ result' = [entities |-> extract_entities(text)]

MaxTitles == 4
PipelineQueries ==
    { <<"t", "a", "u">>,
      <<"T", "a", "u", ",", "a", "b", " ", "a", "p", "o", "e">>,
      <<"a", "b">>,
      <<"a", "m", "y", "l", "o", "i", "d", " ", "t", "a", "u", " ", "a", "p",
        "o", "e", " ", "g", "e", "n", "e", " ", "T", "r", "e", "m", "2", " ",
        "b", "a", "c", "e", "1", " ", "p", "s", "e", "n", "1", " ", "l", "i",
        "p", "i", "d">> }
Titles ==
    { <<>>,
      <<"T", "a", "u", " ", "p", "r", "o", "t", "e", "i", "n">>,
      <<"a", "p", "o", "e", " ", "g", "e", "n", "e", ",", "r", "i", "s", "k",
        " ", "i", "n", " ", "m", "i", "c", "e", " ", "a", "n", "d", " ", "m",
        "e", "n">> }

\* stages 1 and 2 of generate_hypothesis run on a stripped query and the
\* titles of the retrieved documents: the evidence items are built, then the
\* entity list
CallPipelineEntities ==
    /\ Serve
    /\ \E text \in PipelineQueries, titles \in SeqsUpTo(Titles, MaxTitles) :
        /\ call' = [name |-> "pipeline_entities", query |-> text, titles |-> titles]
        /\ result' = [entities |->
                        entities_to_search(entities_unique(text, EvidenceTitles(titles)),
                                           text)]

MaxPieces == 4

\* the decoding of one response of the generative backend by both modules
CallDecode ==
    /\ Serve
    /\ \E response_content \in SeqsUpTo(Pieces, MaxPieces) :
        /\ call' = [name |-> "decode", response_content |-> response_content]
        /\ result' = [summary_primary |-> summary_is_primary(response_content),
                      hypotheses_primary |-> hypotheses_are_primary(response_content)]

UnitNext ==
    \/ CallQueryKg
    \/ CallDecode
    \/ CallPipelineEntities
    \/ CallExtractEntities
    \/ CallHypothesisStage
    \/ Return

UnitSpec == Init /\ [][UnitNext]_vars

\* the event loop runs a started handler to its end
FairSpec == Spec /\ WF_vars(Next)

-----------------------------------------------------------------------------
(* Vocabulary of the properties *)

\* a generate_hypothesis request has returned a HypothesisResponse
Responded == op = "generate" /\ pc = "done" /\ status = 200

\* a generate_hypothesis request is past RETRIEVE_EVIDENCE and not finished:
\* its query is non-empty, the store was ready and retrieve returned
InSoftStage ==
    /\ op = "generate"
    /\ pc \in {"extract_entities", "query_graph", "summary", "hypotheses", "assemble"}

\* order of the stages of generate_hypothesis after RETRIEVE_EVIDENCE
StageRank(p) ==
    CASE p = "extract_entities" -> 1
      [] p = "query_graph" -> 2
      [] p = "summary" -> 3
      [] p = "hypotheses" -> 4
      [] p = "assemble" -> 5
      [] p = "done" -> 6
      [] OTHER -> 0

SegAt(n, t) == \E i \in 1..Len(n) : n[i].t = t

NoteEvidenceCount(n, k) == \E i \in 1..Len(n) : n[i] = Seg("Retrieved {} evidence items.", k)
NoteSkippedCount(n, m) ==
    \E i \in 1..Len(n) : n[i] = Seg("{} items skipped due to missing pmid.", m)
NoteStatesFallback(n) ==
    \/ SegAt(n, NoteUnavailable[1].t)
    \/ SegAt(n, NoteError[1].t)
    \/ SegAt(n, NoteAgentFallback[1].t)
NoteStatesPath(n) == NoteStatesFallback(n) \/ SegAt(n, NoteAgentDefault[1].t)

\* a backend candidate has a usable id: present, non-empty after trimming, not
\* "nan"/"none" in any letter case
CandidateHasId(c) ==
    /\ c.present
    /\ Strip(c.val) # <<>>
    /\ Lower(Strip(c.val)) \notin { <<"n", "a", "n">>, <<"n", "o", "n", "e">> }

LackingId(cands) == { i \in 1..Len(cands) : ~CandidateHasId(cands[i]) }

\* ranks kept: a usable id that no earlier candidate carries
KeptRanks(cands) ==
    { i \in 1..Len(cands) :
        /\ CandidateHasId(cands[i])
        /\ \A j \in 1..(i - 1) : Strip(cands[j].val) # Strip(cands[i].val) }

\* ev is the candidates at the kept ranks, in rank order (title stands for the
\* document at that rank)
IsKeptInRankOrder(ev, cands) ==
    /\ Len(ev) = Cardinality(KeptRanks(cands))
    /\ \A k \in 1..Len(ev) :
         /\ ev[k].title \in KeptRanks(cands)
         /\ ev[k].pmid = Strip(cands[ev[k].title].val)
    /\ \A k \in 1..(Len(ev) - 1) : ev[k].title < ev[k + 1].title

DistinctIds(cands) ==
    \A i, j \in 1..Len(cands) :
        (i < j /\ CandidateHasId(cands[i]) /\ CandidateHasId(cands[j]))
            => Strip(cands[i].val) # Strip(cands[j].val)

\* "H" followed by a positive integer
IsHId(id) ==
    /\ Len(id) >= 2
    /\ id[1] = "H"
    /\ \A i \in 2..Len(id) : IsDigit(id[i])
    /\ \E i \in 2..Len(id) : id[i] # "0"

ScoreInRange(hyp_data) ==
    \/ hyp_data.confidence_score = <<>>
    \/ hyp_data.confidence_score[1] \in MinConfidence..MaxConfidence

-----------------------------------------------------------------------------
(* Properties *)

\* C1: once a generate_hypothesis request has a non-empty query, a ready
\* evidence store and a returned retrieve call, every later stage can take its
\* step, each step moves to the next stage without setting an error status,
\* and the last one ends the request with status 200 and a HypothesisResponse,
\* whatever the graph and generative backends do.
C1_AlwaysResponds ==
    /\ [][InSoftStage => /\ StageRank(pc') = StageRank(pc) + 1
                         /\ status' = IF pc' = "done" THEN 200 ELSE 0]_vars
    /\ [](InSoftStage => ENABLED <<Next>>_vars)

\* C1 witness: a response returned although the graph query failed and the
\* generative output could not be decoded
C1_Witness ==
    /\ Responded
    /\ kg_driver["hypothesis"] /\ calls.kg = 1 /\ response.kg_triples = <<>>
    /\ llm_output.kind = "undecodable"
    /\ response.evidence # <<>>

\* C2: a similarity search that raises on a ready store ends the request with
\* status 500, never with a successful response.
C2_BackendErrorIsFatal == (pc = "done" /\ backend = "raised") => status = 500

\* C3: with no loaded index, generate_hypothesis (query non-empty) and
\* search_papers end with status 503 and no backend was called.
C3_NotReadyIs503 ==
    LET router == IF op = "search" THEN "retriever" ELSE "hypothesis"
    IN  (/\ op # "none"
         /\ ~vectorstore[router]
         /\ (op = "generate" => Strip(query) # <<>>))
        => /\ calls = NoCalls
           /\ (pc = "done" => status = 503)

\* C3 witness: a generate request refused with 503
C3_Witness ==
    /\ op = "generate" /\ pc = "done" /\ status = 503
    /\ ~vectorstore["hypothesis"]
    /\ llm_agent = "model" /\ kg_driver["hypothesis"]

\* C4 as stated: with the generative backend unavailable, every response holds
\* at least one hypothesis and its note states the fallback, for every
\* evidence list.
C4_FallbackAlwaysOne ==
    (Responded /\ llm_agent \in {"agent_failed", "no_model"})
        => /\ Len(response.hypotheses) >= 1
           /\ NoteStatesFallback(response.note)

\* C4 amended: with the generative backend unavailable, every response whose
\* evidence list is non-empty holds at least one hypothesis, and the note of
\* every response states the fallback.
C4_FallbackOneIfEvidence ==
    (Responded /\ llm_agent \in {"agent_failed", "no_model"})
        => /\ (response.evidence # <<>> => Len(response.hypotheses) >= 1)
           /\ NoteStatesFallback(response.note)

\* C4 witness: fallback hypothesis built from evidence without a model
C4_Witness ==
    /\ Responded
    /\ llm_agent = "no_model"
    /\ response.evidence # <<>>
    /\ Len(response.hypotheses) = 1
    /\ NoteStatesFallback(response.note)

\* C5: a response with at least one evidence item holds at least one
\* hypothesis, whatever the generative backend returned.
C5_HypothesesUnlessNoEvidence ==
    (Responded /\ response.evidence # <<>>) => response.hypotheses # <<>>

\* C6: the note of every response records the number of evidence items, a
\* number of items skipped for a missing pmid, and the path (primary or
\* fallback) of hypothesis generation.
C6_NoteRecordsAll ==
    Responded
        => /\ NoteEvidenceCount(response.note, Len(response.evidence))
           /\ SegAt(response.note, "{} items skipped due to missing pmid.")
           /\ NoteStatesPath(response.note)

\* C7: when the backend returns n candidates with distinct ids of which m lack
\* a valid id, the response has n - m evidence items and its note reports m
\* items skipped due to missing pmid.
C7_SkippedCountReported ==
    (Responded /\ backend = "answered" /\ DistinctIds(candidates))
        => /\ Len(response.evidence)
                = Len(candidates) - Cardinality(LackingId(candidates))
           /\ NoteSkippedCount(response.note, Cardinality(LackingId(candidates)))

\* C8: the evidence of a successful response (generate or search) is the
\* backend candidates in rank order restricted to those with a usable pmid,
\* first occurrence of each pmid only; no two items share a pmid.
C8_EvidenceFilteredDeduped ==
    (pc = "done" /\ status = 200 /\ backend = "answered")
        => /\ IsKeptInRankOrder(response.evidence, candidates)
           /\ \A i, j \in 1..Len(response.evidence) :
                i # j => response.evidence[i].pmid # response.evidence[j].pmid

\* C8 witness: a candidate whose pmid repeats an earlier one after
\* trimming was dropped
C8_Witness ==
    /\ Responded
    /\ Len(candidates) >= 2
    /\ \E i, j \in 1..Len(candidates) :
         /\ i < j
         /\ candidates[i].val = <<"1">>
         /\ candidates[j].val = <<"1", " ">>
    /\ Len(response.evidence) = 1

\* C9: the hypothesis ids of a response are pairwise distinct and each is "H"
\* followed by a positive integer.
C9_IdsUniqueAndWellFormed ==
    Responded
        => /\ \A i \in 1..Len(response.hypotheses) : IsHId(response.hypotheses[i].id)
           /\ \A i, j \in 1..Len(response.hypotheses) :
                i # j => response.hypotheses[i].id # response.hypotheses[j].id

\* C10: every hypothesis of a response has confidence_score in [0, 1], and a
\* generated record with a score outside the range is dropped, not clamped:
\* the response holds no more hypotheses than the output has in-range records.
C10_ConfidenceInRange ==
    Responded
        => /\ \A i \in 1..Len(response.hypotheses) :
                response.hypotheses[i].confidence_score \in MinConfidence..MaxConfidence
           /\ (gen = "primary"
                 => Len(response.hypotheses)
                      <= Cardinality({ i \in 1..Len(llm_output.hypotheses) :
                                         ScoreInRange(llm_output.hypotheses[i]) }))

\* C10 witness: an out-of-range record was generated next to a valid one
C10_Witness ==
    /\ Responded
    /\ gen = "primary"
    /\ \E i \in 1..Len(llm_output.hypotheses) : ~ScoreInRange(llm_output.hypotheses[i])
    /\ Len(response.hypotheses) >= 1

-----------------------------------------------------------------------------
(* The graph router *)

DenyList ==
    { <<"D", "R", "O", "P">>,
      <<"D", "E", "L", "E", "T", "E">>,
      <<"R", "E", "M", "O", "V", "E">>,
      <<"C", "R", "E", "A", "T", "E">>,
      <<"M", "E", "R", "G", "E">>,
      <<"S", "E", "T">>,
      <<"D", "E", "T", "A", "C", "H">> }

\* keyword kw stands at position i of the upper-cased text
KeywordAt(text, kw, i) ==
    /\ i + Len(kw) - 1 <= Len(text)
    /\ \A j \in 1..Len(kw) : UpperChar(text[i + j - 1]) = kw[j]

MentionsDenied(text) ==
    \E kw \in DenyList : \E i \in 1..Len(text) : KeywordAt(text, kw, i)

MatchAll ==
    <<"M", "A", "T", "C", "H", " ", "(", "n", ")", " ", 
      "R", "E", "T", "U", "R", "N", " ", "n">>
CreatedBy == <<"C", "R", "E", "A", "T", "E", "D", "_", "B", "Y">>

BrowsingEndpoints ==
    {"query", "entities", "relations", "neighborhood", "path", "statistics"}

\* C11: the raw-query operation never passes to the graph backend a query
\* whose upper-cased form contains a deny-list keyword as a substring; with the
\* backend ready such a query is rejected with a client error (400).
\* "CREATED_BY" is rejected; "MATCH (n) RETURN n" is accepted and executed.
C11_RawQueryGuard ==
    call.name = "cypher"
        => /\ \A i \in 1..Len(result.passed) : ~MentionsDenied(result.passed[i])
           /\ (kg_driver["kg"] /\ MentionsDenied(call.cypher_query)
                 => result.status = 400 /\ result.ran = 0)
           /\ (kg_driver["kg"] /\ call.cypher_query = CreatedBy => result.status = 400)
           /\ (kg_driver["kg"] /\ call.cypher_query = MatchAll
                 => /\ result.passed = <<MatchAll>>
                    /\ result.ran = 1
                    /\ (~call.outcome.raised => result.status = 200))

\* C11 witness: "CREATED_BY" was sent to a ready backend and rejected
C11_Witness ==
    /\ call.name = "cypher"
    /\ kg_driver["kg"]
    /\ call.cypher_query = CreatedBy
    /\ result.status = 400
    /\ result.passed = <<>>

\* C12: query_kg, for every entity list and every backend state (not
\* connected, connected with a failing query), returns an empty triple
\* sequence and raises no exception to its caller.
C12_QueryKgNeverRaises ==
    (call.name = "query_kg" /\ (~kg_driver["hypothesis"] \/ call.outcome.raised))
        => /\ ~result.raised
           /\ result.triples = <<>>

\* the request passed the validation of its parameters, so the operation it
\* names was entered
Entered ==
    /\ call.name = "neighborhood" => call.depth \in MinHops..MaxHops
    /\ call.name = "path" => call.depth \in MinPathLength..MaxPathLength

\* C13: for each direct graph-browsing operation (triple query, entity
\* listing, relation listing, neighborhood expansion, path search,
\* statistics), when the graph backend is ready but the backend query raises,
\* the operation fails with HTTP 500 whose detail exposes the underlying
\* error message.
C13_QueryErrorIs500 ==
    (call.name \in BrowsingEndpoints /\ Entered /\ kg_driver["kg"] /\ call.outcome.raised)
        => /\ result.status = 500
           /\ result.detail.e = BackendMessage

\* C14: for each direct graph-browsing operation, the raw query included, when
\* the graph backend is not ready the operation fails with HTTP 503 before any
\* backend query is issued.  An operation is a request whose handler was
\* entered; a request refused by parameter validation issues no query either
\* (C25).
C14_GraphNotReadyIs503 ==
    (call.name \in BrowsingEndpoints \cup {"cypher"} /\ Entered /\ ~kg_driver["kg"])
        => /\ result.status = 503
           /\ result.ran = 0
           /\ result.passed = <<>>

\* C14 witness: a path search was answered 503 by a router that is not
\* connected
C14_Witness ==
    /\ call.name = "path"
    /\ Entered
    /\ ~kg_driver["kg"]
    /\ result.status = 503

-----------------------------------------------------------------------------
(* Summaries and generative calls *)

\* the overview of the "no evidence" summary
NoPapersOverview == "No papers retrieved for query: {query}"

\* C15: when retrieval yields zero evidence items, in every generative backend
\* state (agent failed to initialise, no model configured, model ready), the
\* response's summary has an overview stating that no papers were retrieved,
\* and the generative backend is not called for summarization.
C15_NoEvidenceSummary ==
    (Responded /\ response.evidence = <<>>)
        => /\ response.summary.overview = NoPapersOverview
           /\ calls.llm_summary = 0

\* C16: within one hypothesis-generation request the generative backend is
\* invoked at most once for summarization and at most once for hypothesis
\* synthesis; no stage is repeated or retried, whether or not the first
\* invocation succeeds.
C16_AtMostOneCallPerStage ==
    op = "generate"
        => /\ calls.llm_summary <= 1
           /\ calls.llm_hypotheses <= 1

\* C17: handling a hypothesis-generation request leaves every process-wide
\* backend handle unchanged, the generative client's temperature included;
\* after any sequence of requests, the generative calls made for a request
\* (summary and hypotheses) run under that request's own temperature and never
\* under the temperature of an earlier request.
C17_HandlesReadOnly ==
    /\ [][op = "generate"
            => UNCHANGED <<vectorstore, kg_driver, llm_agent, llm_temperature>>]_vars
    /\ [](op = "generate" => llm_temps \subseteq {temperature})

-----------------------------------------------------------------------------
(* Request validation *)

Blank(text) == \A i \in 1..Len(text) : IsSpace(text[i])

\* C18: a hypothesis-generation request whose query is empty after trimming
\* whitespace is rejected with a client error (400) before processing: the
\* outcome is the same whether or not the evidence backend is ready, and
\* neither the evidence, graph nor generative backend is called.
C18_BlankQueryRejected ==
    (op = "generate" /\ Blank(query))
        => /\ pc \in {"query_check", "done"}
           /\ (pc = "done" => status = 400)
           /\ calls = NoCalls
           /\ llm_temps = {}

\* C18 witness: a query of one space was rejected although the evidence
\* backend is not ready
C18_Witness ==
    /\ op = "generate"
    /\ query = <<" ">>
    /\ ~vectorstore["hypothesis"]
    /\ pc = "done"
    /\ status = 400

-----------------------------------------------------------------------------
(* Generated records *)

\* positions of the records that pass validation: required fields present,
\* score absent or within range, id not used by an earlier passing record
PassingRecords(records) ==
    { i \in 1..Len(records) :
        /\ records[i].required
        /\ ScoreInRange(records[i])
        /\ \A j \in 1..(i - 1) :
             (records[j].required /\ ScoreInRange(records[j]))
                 => records[j].id # records[i].id }

\* the k-th smallest position of a set of positions
KthOf(positions, k) ==
    CHOOSE i \in positions : Cardinality({ j \in positions : j < i }) = k - 1

\* the output has the shape the protocol requires: it decodes to an object
\* with a 'hypotheses' list whose note, when it has one, is a string or null
HasRequiredShape(out) == out.kind = "parsed" /\ out.note # "non_string"

\* C19: when the generative output parses and has a 'hypotheses' list, each
\* record that fails schema validation (missing required field,
\* confidence_score outside [0,1], duplicate id) is skipped individually
\* without failing the batch: the response's hypotheses are exactly the valid
\* records, in generation order.
C19_InvalidRecordsSkipped ==
    (Responded /\ HasRequiredShape(llm_output))
        => LET records == llm_output.hypotheses
               passing == PassingRecords(records)
           IN  /\ Len(response.hypotheses) = Cardinality(passing)
               /\ \A k \in 1..Cardinality(passing) :
                    LET rec == records[KthOf(passing, k)]
                    IN  /\ response.hypotheses[k].id = rec.id
                        /\ rec.confidence_score # <<>>
                             => response.hypotheses[k].confidence_score
                                  = rec.confidence_score[1]

-----------------------------------------------------------------------------
(* The deterministic fallback *)

FallbackPaths == {"unavailable", "error", "agent_fallback"}

Min(a, b) == IF a < b THEN a ELSE b

\* hyps is exactly one hypothesis "H1", Medium, of the fallback confidence,
\* citing the first min(3, n) evidence items in order
IsTheFallback(hyps, evidence) ==
    /\ Len(hyps) = 1
    /\ hyps[1].id = <<"H", "1">>
    /\ hyps[1].plausibility = "Medium"
    /\ hyps[1].confidence_score = FallbackConfidence
    /\ Len(hyps[1].supporting_evidence) = Min(3, Len(evidence))
    /\ \A i \in 1..Len(hyps[1].supporting_evidence) :
         hyps[1].supporting_evidence[i] = evidence[i].pmid

\* C20: whenever hypothesis generation takes the deterministic fallback path
\* for any reason (backend absent, backend call raising, output not decodable,
\* output lacking the 'hypotheses' key), for every evidence list, the result
\* is exactly one hypothesis with id "H1", plausibility Medium and the fixed
\* default confidence_score, whose supporting_evidence has exactly
\* min(3, number of evidence items) entries taken in order from the first
\* evidence items.
C20_FallbackIsOneH1 ==
    (call.name = "hypothesis_stage" /\ result.gen \in FallbackPaths)
        => IsTheFallback(result.hypotheses, call.evidence)

\* C20 amended: the same, for every evidence list when the agent itself falls
\* back (backend call raising, output not decodable, output lacking the
\* 'hypotheses' key) and for every non-empty evidence list when the router
\* falls back (backend absent, or an exception leaving the agent); when the
\* router falls back on an empty evidence list the result has no hypothesis.
C20_FallbackIsOneH1IfBuilt ==
    (call.name = "hypothesis_stage" /\ result.gen \in FallbackPaths)
        => IF result.gen = "agent_fallback" \/ call.evidence # <<>>
           THEN IsTheFallback(result.hypotheses, call.evidence)
           ELSE result.hypotheses = <<>>

\* C20 witness: the output was not decodable and four evidence items were
\* at hand; the fallback cites the first three
C20_Witness ==
    /\ call.name = "hypothesis_stage"
    /\ call.out.kind = "undecodable"
    /\ Len(call.evidence) = 4
    /\ result.gen = "agent_fallback"
    /\ Len(result.hypotheses) = 1
    /\ Len(result.hypotheses[1].supporting_evidence) = 3

-----------------------------------------------------------------------------
(* Stages of one request *)

\* overviews of the summaries built without a decoded model answer
FallbackOverviews ==
    { "Research on {query} based on {n} retrieved papers",
      "Research analysis on '{query}' based on {n} retrieved papers",
      NoPapersOverview }

\* C21: a fallback in one stage affects that stage only: when the hypothesis
\* stage falls back, the response's evidence, kg_triples and summary are
\* exactly those produced by the RETRIEVE_EVIDENCE, QUERY_GRAPH and
\* GENERATE_SUMMARY stages of the same request; and when the summary stage
\* falls back, the hypothesis stage still takes the primary path if the
\* generative backend answers it validly.
C21_FallbackStaysInStage ==
    [][ /\ (pc = "hypotheses" /\ gen' \in FallbackPaths)
            => UNCHANGED <<evidence_out, kg_triples_out, summary_out>>
        /\ (pc = "assemble" /\ pc' = "done" /\ gen \in FallbackPaths)
            => /\ response'.evidence = evidence_out
               /\ response'.kg_triples = kg_triples_out
               /\ response'.summary = summary_out
        /\ (/\ pc = "hypotheses"
            /\ llm_agent = "model"
            /\ summary_out.overview \in FallbackOverviews
            /\ HasRequiredShape(llm_output'))
            => gen' = "primary" ]_vars

\* C22: within one request the stages occur in dependency order:
\* RETRIEVE_EVIDENCE completes before EXTRACT_ENTITIES and before
\* GENERATE_HYPOTHESES, EXTRACT_ENTITIES before QUERY_GRAPH, and both
\* QUERY_GRAPH and GENERATE_SUMMARY complete (successfully or degraded) before
\* GENERATE_HYPOTHESES starts, which in turn completes before ASSEMBLE.
C22_StagesInOrder ==
    [][ op = "generate"
          => /\ calls'.retrieve > calls.retrieve
                  => /\ pc = "retrieve" /\ calls = NoCalls /\ gen = "none"
                     /\ entities_out = <<>> /\ entities_out' = <<>>
             /\ (entities_out' # entities_out /\ entities_out' # <<>>)
                  => /\ pc = "extract_entities"
                     /\ backend # "none"
                     /\ calls.retrieve = 1
                     /\ evidence_out' = evidence_out
                     /\ calls.kg = 0 /\ calls'.kg = 0
                     /\ kg_triples_out = <<>> /\ kg_entities = <<>>
                     /\ gen = "none"
                     /\ entities_out = <<>> /\ Len(entities_out') = 1
                     /\ pc' = "query_graph"
             /\ (pc = "query_graph" /\ pc' # pc)
                  => /\ backend # "none"
                     /\ calls.retrieve = 1
                     /\ Len(entities_out) = 1
                     /\ entities_out' = entities_out
                     /\ calls.llm_summary = 0 /\ calls.llm_hypotheses = 0
                     /\ summary_out = NoSummary /\ gen = "none"
                     /\ pc' = "summary"
             /\ calls'.kg > calls.kg
                  => /\ pc = "query_graph"
                     /\ Len(entities_out) = 1
                     /\ entities_out[1] # <<>> => kg_entities' = entities_out
             /\ (kg_entities' # kg_entities /\ kg_entities' # <<>>)
                  => calls'.kg > calls.kg
             /\ summary_out' # summary_out
                  => pc \in {"summary", "hypotheses", "done"}
             /\ (pc = "summary" /\ pc' # pc)
                  => /\ backend # "none"
                     /\ gen = "none"
                     /\ calls.llm_hypotheses = 0
                     /\ summary_out' # NoSummary
                     /\ pc' = "hypotheses"
             /\ (gen' # gen /\ gen' # "none")
                  => /\ pc = "hypotheses"
                     /\ backend # "none"
                     /\ summary_out # NoSummary
                     /\ Len(entities_out) = 1
                     /\ (kg_driver["hypothesis"] => calls.kg = 1)
             /\ calls'.llm_hypotheses > calls.llm_hypotheses => pc = "hypotheses"
             /\ (response' # response /\ response' # NoResponse)
                  => /\ pc = "assemble"
                     /\ gen # "none"
                     /\ pc' = "done" ]_vars

\* C22 witness: a request answered after every stage called its backend; the
\* entity list was built from the query and a title of the retrieved evidence,
\* and the graph was queried on it
C22_Witness ==
    /\ Responded
    /\ response.evidence # <<>>
    /\ calls.retrieve = 1
    /\ Len(entities_out) = 1
    /\ Len(entities_out[1]) >= 2
    /\ kg_entities = entities_out
    /\ calls.kg = 1
    /\ calls.llm_summary >= 1
    /\ calls.llm_hypotheses = 1

-----------------------------------------------------------------------------
(* Entity extraction *)

IsSeparator(c) == c = " " \/ c = ","

\* <<i, j>> such that text[i..j] is a maximal run free of separators
TokenSpans(text) ==
    { sp \in (1..Len(text)) \X (1..Len(text)) :
        /\ sp[1] <= sp[2]
        /\ \A k \in sp[1]..sp[2] : ~IsSeparator(text[k])
        /\ (sp[1] = 1 \/ IsSeparator(text[sp[1] - 1]))
        /\ (sp[2] = Len(text) \/ IsSeparator(text[sp[2] + 1])) }

\* the tokens longer than 2 characters
LongSpans(text) == { sp \in TokenSpans(text) : sp[2] - sp[1] + 1 > 2 }

TokenAt(text, sp) == Lower(SubSeq(text, sp[1], sp[2]))

\* where the lower-cased token e is first seen in text
FirstSeen(text, e) ==
    CHOOSE i \in 1..Len(text) :
        /\ \E sp \in LongSpans(text) : sp[1] = i /\ TokenAt(text, sp) = e
        /\ \A sp \in LongSpans(text) : TokenAt(text, sp) = e => sp[1] >= i

\* ents is the first-seen deduplication of the lower-cased long tokens of
\* text, cut after six
IsFirstSeenTokens(ents, text) ==
    /\ \A k \in 1..Len(ents) : \E sp \in LongSpans(text) : TokenAt(text, sp) = ents[k]
    /\ \A k \in 1..(Len(ents) - 1) : FirstSeen(text, ents[k]) < FirstSeen(text, ents[k + 1])
    /\ \A sp \in LongSpans(text) :
         (\A k \in 1..Len(ents) : ents[k] # TokenAt(text, sp))
             => /\ Len(ents) = 6
                /\ FirstSeen(text, ents[6]) < sp[1]

\* C23: for every query string, the standalone entity extraction returns a
\* non-empty ordered sequence of at most 6 entities without duplicates, each
\* either a lower-cased query token longer than 2 characters (tokens split on
\* whitespace and commas, in first-seen order) or, when the query yields zero
\* such tokens, the fixed default.
C23_ExtractEntities ==
    call.name = "extract_entities"
        => LET ents == result.entities
           IN  /\ ents # <<>>
               /\ Len(ents) <= 6
               /\ \A k, l \in 1..Len(ents) : k # l => ents[k] # ents[l]
               /\ IF LongSpans(call.query) # {}
                  THEN IsFirstSeenTokens(ents, call.query)
                  ELSE ents = <<Disease>>

\* the k-th long token of text, lower-cased
KthToken(text, k) ==
    TokenAt(text, CHOOSE sp \in LongSpans(text) :
                      Cardinality({ o \in LongSpans(text) : o[1] < sp[1] }) = k - 1)

\* the lower-cased long tokens of text in order, split on whitespace and
\* commas: the tokenization of the standalone extraction
Tokens(text) == [k \in 1..Cardinality(LongSpans(text)) |-> KthToken(text, k)]

RECURSIVE TokensOfTitles(_)
TokensOfTitles(titles) ==
    IF titles = <<>> THEN <<>>
    ELSE Take(Tokens(Head(titles)), 3) \o TokensOfTitles(Tail(titles))

\* the elements of s whose lower-cased form is not that of an earlier element
FirstSeenOnly(s) ==
    LET keep == { i \in 1..Len(s) : \A j \in 1..(i - 1) : Lower(s[j]) # Lower(s[i]) }
    IN  [k \in 1..Cardinality(keep) |->
            s[CHOOSE i \in keep : Cardinality({ j \in keep : j < i }) = k - 1]]

\* C24: inside the pipeline, the entity list passed to the graph query equals
\* the case-insensitive first-seen deduplication of: the query's entity tokens
\* (capped at 6) followed by up to 3 tokens from the title of each of the top
\* 3 evidence items, where both query and title tokens are produced by the
\* same tokenization rule as standalone extraction (split on whitespace and
\* commas, lower-cased, longer than 2 characters).
C24_PipelineEntities ==
    call.name = "pipeline_entities"
        => result.entities
             = FirstSeenOnly(Take(Tokens(call.query), 6)
                                 \o TokensOfTitles(Take(EvidenceTitles(call.titles), 3)))

-----------------------------------------------------------------------------
(* Traversal depth *)

\* C25: every neighborhood query that reaches the graph backend has a hop
\* count within the caller-supplied bound (1..3) and every path query has a
\* maximum path length within its bound (1..5); a request with a value outside
\* the bound never issues a backend traversal.
C25_TraversalDepthBounded ==
    /\ call.name = "neighborhood"
         => /\ \A i \in 1..Len(result.depth) : result.depth[i] \in 1..3
            /\ (call.depth \notin 1..3 => result.ran = 0 /\ result.depth = <<>>)
            /\ (result.ran = 1 => result.depth = <<call.depth>>)
    /\ call.name = "path"
         => /\ \A i \in 1..Len(result.depth) : result.depth[i] \in 1..5
            /\ (call.depth \notin 1..5 => result.ran = 0 /\ result.depth = <<>>)
            /\ (result.ran = 1 => result.depth = <<call.depth>>)

\* C25 witness: a neighborhood request for 4 hops was refused by a connected
\* router
C25_Witness ==
    /\ call.name = "neighborhood"
    /\ kg_driver["kg"]
    /\ call.depth = 4
    /\ result.status = 422
    /\ result.ran = 0

-----------------------------------------------------------------------------
(* Decoding of generated text *)

\* C26: summarize and synthesize run the same extraction-and-repair protocol
\* on the raw generative text (take fenced content, strip trailing commas
\* before } or ], otherwise locate the first {...} span, else decode failure):
\* for every raw response, summarize takes the primary path exactly when the
\* shared protocol yields a parseable object with the required keys, so a
\* response that is valid except for a trailing comma or surrounding prose
\* yields a primary summary just as it yields primary hypotheses.
C26_SameDecoding ==
    call.name = "decode"
        => (result.summary_primary <=> result.hypotheses_primary)

-----------------------------------------------------------------------------
(* Status and index builds *)

\* C27: the status operation always returns a result (never an error) in
\* every combination of backend states, and each of its readiness flags
\* (evidence index, graph, generative) equals the readiness of that backend
\* alone: a failing or raising readiness check of one backend reports that
\* backend as not ready without changing the flags of the others.
C27_StatusFlagsIndependent ==
    call.name = "hypothesis_status"
        => /\ result.status = 200
           /\ result.chroma_ready = vectorstore["hypothesis"]
           /\ result.neo4j_ready = kg_driver["hypothesis"]
           /\ result.llm_ready = (llm_agent = "model")

\* C27 witness: the status of a process whose evidence index is loaded while
\* the graph is not connected and the agent has no model
C27_Witness ==
    /\ call.name = "hypothesis_status"
    /\ vectorstore["hypothesis"] /\ ~kg_driver["hypothesis"] /\ llm_agent = "no_model"
    /\ result.status = 200
    /\ result.chroma_ready /\ ~result.neo4j_ready /\ ~result.llm_ready

\* C28: after a build-index operation completes successfully, the evidence
\* backend is ready for every operation that requires it in the same process:
\* the retriever status and the hypothesis status both report the index as
\* ready, and subsequent search and hypothesis-generation requests no longer
\* fail with 'vector store not ready' (503).
C28_BuiltIndexReadyEverywhere ==
    built
        => /\ call.name = "retriever_status" => result.ready
           /\ call.name = "hypothesis_status" => result.chroma_ready
           /\ (op \in {"search", "generate"} /\ pc = "done") => status # 503

\* C29: a build_index call that fails (returns False) at any step, including a
\* failure while creating the new store, leaves the retriever as it was before
\* the call: is_ready() is unchanged and a previously loaded persisted index
\* is still present.
C29_FailedBuildChangesNothing ==
    (call.name = "build_index" /\ ~result.success)
        => /\ is_ready(vectorstore["retriever"]) = call.ready
           /\ (call.ready /\ call.dir \in {"index", "rebuilt"})
                  => chroma_dir = call.dir

-----------------------------------------------------------------------------
(* Records without an experiment *)

\* the record lacks the suggested_experiment key and nothing else
LacksOnlyExperiment(rec) ==
    rec.required /\ ScoreInRange(rec) /\ rec.suggested_experiment = <<>>

\* the experiment whose four required fields all read "Not specified"
IsNotSpecified(e) ==
    \A k \in {"model", "intervention", "primary_outcome", "design_summary"} :
        e[k] = "Not specified"

\* C30: a generated hypothesis record that lacks only the suggested_experiment
\* field is not skipped: it is kept in the response with a placeholder
\* experiment whose model, intervention, primary_outcome and design_summary are
\* all "Not specified".  The records are those of an output of the required
\* shape; an output that is not is a decode failure, answered by the fallback.
C30_PlaceholderExperiment ==
    (Responded /\ HasRequiredShape(llm_output))
        => LET records == llm_output.hypotheses
               hyps == response.hypotheses
           IN  /\ \A i \in 1..Len(records) :
                     LacksOnlyExperiment(records[i])
                         => \E k \in 1..Len(hyps) :
                                /\ hyps[k].id = records[i].id
                                /\ IsNotSpecified(hyps[k].suggested_experiment)
               /\ Cardinality({ i \in 1..Len(records) : LacksOnlyExperiment(records[i]) })
                      = Cardinality({ k \in 1..Len(hyps) :
                                        IsNotSpecified(hyps[k].suggested_experiment) })

\* C30 witness: a response keeps the record "H1", generated without an
\* experiment, next to a record generated with one
C30_Witness ==
    /\ Responded
    /\ HasRequiredShape(llm_output)
    /\ Len(llm_output.hypotheses) = 2
    /\ LacksOnlyExperiment(llm_output.hypotheses[1])
    /\ llm_output.hypotheses[2].suggested_experiment # <<>>
    /\ Len(response.hypotheses) = 2
    /\ IsNotSpecified(response.hypotheses[1].suggested_experiment)
    /\ ~IsNotSpecified(response.hypotheses[2].suggested_experiment)

====
